---- MODULE Spec2Model ----
(***************************************************************************)
(* Model of the ranger range orchestrator: the keyspace (ranges, their     *)
(* placements, split and join), the orchestrator tick with its range and   *)
(* placement state machines, the operation gates, and the actuator that    *)
(* turns desired placement states into node commands.                      *)
(***************************************************************************)
EXTENDS Integers, Sequences, FiniteSets, TLC

\* ------------------------------------------------------------------ bounds

MaxRanges == 4        \* ranges the keyspace may hold in one behaviour
NumKeys == 1          \* keys 1..NumKeys; 0 is ZeroKey (both -inf and +inf)
MaxOps == 2           \* operator requests submitted in one behaviour
MaxInjects == 1       \* responses injected into the actuator in one behaviour
MaxDropFailures == 2  \* failed Drop commands counted; the count then stays
KsMaxRanges == 6      \* ranges of the keyspace when it is driven directly
NumIdents == 2        \* ranges offered to a storage node
NumStored == 2        \* range ids handed to the persister
MaxPuts == 2          \* PutRanges calls on one store

\* --------------------------------------------------------------- constants

ZeroKey == 0
NoNode == "none"
AnyNode == "any"
Nodes == {"aaa", "bbb"}
Keys == 1..NumKeys
RangeIds == 1..MaxRanges
NoOp == [parents |-> <<>>, children |-> <<>>]
Absent == "NsNotFound"
MinPlacements == 1

\* failures after which Prepare, Serve or Take is given up
maxFailures(action) == 3

mustDefault(action) ==
    CASE action = "Prepare" -> "NsInactive"
      [] action = "Serve" -> "NsActive"
      [] action = "Take" -> "NsInactive"
      [] action = "Drop" -> Absent

slowState(action) ==
    CASE action = "Prepare" -> "NsPreparing"
      [] action = "Serve" -> "NsActivating"
      [] action = "Take" -> "NsDeactivating"
      [] action = "Drop" -> "NsDropping"

NoFails == [Prepare |-> 0, Serve |-> 0, Take |-> 0, Drop |-> 0]

VARIABLES
    ranges,     \* Keyspace.ranges: sequence of ranges, index = ident
    roster,     \* Roster: node -> range ident -> remote state
    opMoves,    \* Orchestrator.opMoves
    opSplits,   \* Orchestrator.opSplits (set of requests, one per range)
    opJoins,    \* Orchestrator.opJoins
    injects,    \* mock Actuator.injects: command -> injected response
    nOps,       \* operator requests submitted so far
    nInj,       \* responses injected so far
    panicked,   \* the orchestrator goroutine has panicked
    kvNode,     \* a storage node: its ranges, their data, its last reply
    store,      \* the SQL store of the persister and the last result
    opErrs,     \* the Err channels of the operator's splits and joins
    recon,      \* the reconciler: its last node report and the result
    durable     \* a DurablePlacement and the outcome of the last call on it

vars == <<ranges, roster, opMoves, opSplits, opJoins, injects, nOps, nInj,
          panicked, kvNode, store, opErrs,
                   recon, durable>>

\* ----------------------------------------------------------------- helpers

SeqToSet(s) == {s[i] : i \in 1..Len(s)}

RemoveAt(s, i) == [j \in 1..(Len(s) - 1) |-> IF j < i THEN s[j] ELSE s[j + 1]]

\* a Drop is retried for ever and never counts as failed
Failed(p, action) ==
    action # "Drop" /\ p.fails[action] >= maxFailures(action)

NewPlacement(node) ==
    [node |-> node, cur |-> "PsPending", des |-> "PsPending",
     repl |-> NoNode, fails |-> NoFails]

NewReplacement(node, src) ==
    [node |-> node, cur |-> "PsPending", des |-> "PsPending",
     repl |-> src, fails |-> NoFails]

\* failedOn: the nodes the roster has seen fail a placement of the range
NewRange(start, end, parents) ==
    [state |-> "RsActive", start |-> start, end |-> end,
     parents |-> parents, children |-> <<>>, placements |-> <<>>,
     failedOn |-> {}]

Contains(r, k) ==
    /\ (r.start = ZeroKey \/ k >= r.start)
    /\ (r.end = ZeroKey \/ k < r.end)

Get(ros, node, rid) == ros[node][rid]

PlacementsOf(rs, rids) ==
    UNION {SeqToSet(rs[rid].placements) : rid \in SeqToSet(rids)}

\* ------------------------------------------------------ keyspace operations

\* Range.ToState: Active -> Subsuming -> Obsolete only.
RangeTransitionOk(old, new) ==
    \/ old = "RsActive" /\ new = "RsSubsuming"
    \/ old = "RsSubsuming" /\ new = "RsObsolete"

\* Keyspace.DoSplit: the error, or "" when the split is performed.
SplitError(rs, rid, k) ==
    LET r == rs[rid] IN
    IF k = ZeroKey THEN "can't split on zero key"
    ELSE IF r.state # "RsActive" THEN "can't split non-ready range"
    ELSE IF Len(r.children) > 0 THEN "already has children"
    ELSE IF ~Contains(r, k) THEN "does not contain key"
    ELSE IF k = r.start THEN "starts with key"
    ELSE ""

\* Keyspace.DoSplit on success: parent to Subsuming, two children appended.
DoSplit(rs, rid, k) ==
    LET r == rs[rid]
        one == Len(rs) + 1
        two == Len(rs) + 2
        rs1 == [rs EXCEPT ![rid].state = "RsSubsuming",
                          ![rid].children = <<one, two>>]
    IN rs1 \o <<NewRange(r.start, k, <<rid>>), NewRange(k, r.end, <<rid>>)>>

\* Keyspace.DoSplit changing the state of the range before its checks.
Split_StateFirst(rs, rid, k) ==
    LET rs1 == [rs EXCEPT ![rid].state =
                   IF RangeTransitionOk(@, "RsSubsuming")
                   THEN "RsSubsuming" ELSE @]
    IN IF SplitError(rs, rid, k) # ""
       THEN [rs |-> rs1, err |-> SplitError(rs, rid, k)]
       ELSE [rs |-> DoSplit(rs, rid, k), err |-> ""]

\* Keyspace.DoSplit as a call: the checks in their order, then the state
\* transition (which may be refused), then the two children; returns the
\* keyspace after the call and the error ("" for none).
Split(rs, rid, k) ==
    IF SplitError(rs, rid, k) # ""
    THEN [rs |-> rs, err |-> SplitError(rs, rid, k)]
    ELSE IF ~RangeTransitionOk(rs[rid].state, "RsSubsuming")
    THEN [rs |-> rs, err |-> "invalid range state transition"]
    ELSE [rs |-> DoSplit(rs, rid, k), err |-> ""]

\* Keyspace.JoinTwo precondition checks (before any state is changed).
JoinError(rs, one, two) ==
    IF \E x \in {one, two} : rs[x].state # "RsActive"
    THEN "can't join non-ready ranges"
    ELSE IF \E x \in {one, two} : Len(rs[x].children) > 0
    THEN "already has children"
    ELSE IF rs[one].end # rs[two].start THEN "not adjacent"
    ELSE ""

\* Keyspace.JoinTwo after the checks: both ranges go to Joining one after
\* the other; when the second transition is refused (one = two) the first
\* stays changed and no child is created.
JoinTwo(rs, one, two) ==
    LET rs1 == [rs EXCEPT ![one].state = "RsSubsuming"]
        three == Len(rs) + 1
    IN IF ~RangeTransitionOk(rs1[two].state, "RsSubsuming")
       THEN [rs |-> rs1, ok |-> FALSE]
       ELSE [rs |-> [rs1 EXCEPT ![two].state = "RsSubsuming",
                                ![one].children = <<three>>,
                                ![two].children = <<three>>]
                    \o <<NewRange(rs[one].start, rs[two].end, <<one, two>>)>>,
             ok |-> TRUE]

\* Keyspace.Operations: the in-flight operations, rebuilt from the links of
\* the subsuming ranges; each is listed once, at its first parent.
OpOf(rs, rid) ==
    [parents |-> rs[rs[rid].children[1]].parents, children |-> rs[rid].children]

IsOpHead(rs, rid) ==
    /\ rs[rid].state = "RsSubsuming"
    /\ Len(rs[rid].children) > 0
    /\ OpOf(rs, rid).parents[1] = rid

RECURSIVE OpsFrom(_, _)
OpsFrom(rs, rid) ==
    IF rid > Len(rs) THEN <<>>
    ELSE (IF IsOpHead(rs, rid) THEN <<OpOf(rs, rid)>> ELSE <<>>)
         \o OpsFrom(rs, rid + 1)

Operations(rs) == OpsFrom(rs, 1)

OpRanges(op) == op.parents \o op.children

IsParent(op, rid) == rid \in SeqToSet(op.parents)
IsChild(op, rid) == rid \in SeqToSet(op.children)

\* Operation direction: backwards (inverted) while a child placement has
\* given up activating or a parent placement has given up deactivating.
Backwards(rs, op) ==
    \/ \E p \in PlacementsOf(rs, op.children) : Failed(p, "Serve")
    \/ \E p \in PlacementsOf(rs, op.parents) : Failed(p, "Take")

\* ------------------------------------------------------------------- gates

Replaced(r, p) == {q \in SeqToSet(r.placements) : q.node = p.repl}
Replacers(r, p) == {q \in SeqToSet(r.placements) : q.repl = p.node}

InactiveOrFurther(p) == p.cur \in {"PsInactive", "PsMissing", "PsDropped"}

ChildrenAll(rs, op, states) ==
    /\ \A c \in SeqToSet(op.children) : Len(rs[c].placements) > 0
    /\ \A p \in PlacementsOf(rs, op.children) : p.cur \in states

\* Operation.MayActivate
MayActivate(rs, p, rid, op) ==
    LET r == rs[rid] IN
    /\ p.cur = "PsInactive"
    /\ ~Failed(p, "Serve")
    /\ \A q \in Replaced(r, p) : q.cur # "PsActive"
    /\ \A q \in Replacers(r, p) : Failed(q, "Serve")
    /\ IF IsChild(op, rid)
       THEN /\ ~Backwards(rs, op)
            /\ \A q \in PlacementsOf(rs, op.parents) : InactiveOrFurther(q)
       ELSE IF IsParent(op, rid)
       THEN /\ Backwards(rs, op)
            /\ \A q \in PlacementsOf(rs, op.children) : q.cur # "PsActive"
       ELSE TRUE

\* Operation.MayDeactivate
MayDeactivate(rs, p, rid, op) ==
    LET r == rs[rid] IN
    /\ p.cur = "PsActive"
    /\ ~Failed(p, "Take")
    /\ IF IsParent(op, rid)
       THEN /\ ~Backwards(rs, op)
            /\ ChildrenAll(rs, op, {"PsInactive", "PsActive"})
       ELSE IF IsChild(op, rid) /\ Backwards(rs, op)
       THEN TRUE
       ELSE \E q \in Replacers(r, p) :
                q.cur = "PsInactive" /\ ~Failed(q, "Serve")

\* Operation.MayDrop
MayDrop(rs, p, rid, op) ==
    LET r == rs[rid] IN
    /\ p.cur = "PsInactive"
    /\ IF Failed(p, "Serve")
       THEN /\ \A q \in Replaced(r, p) : q.cur = "PsActive"
            /\ IsChild(op, rid) =>
                 \A q \in PlacementsOf(rs, op.parents) : q.cur = "PsActive"
       ELSE IF IsParent(op, rid)
       THEN /\ ~Backwards(rs, op)
            /\ ChildrenAll(rs, op, {"PsActive"})
       ELSE IF IsChild(op, rid) /\ Backwards(rs, op)
       THEN FALSE
       ELSE \/ \E q \in Replacers(r, p) : q.cur = "PsActive"
            \/ \E q \in Replaced(r, p) : Failed(q, "Take")

\* Operation.CheckComplete: the parents become obsolete once none of them
\* has a placement left and every child has an active placement.
Complete(rs, op) ==
    /\ \A x \in SeqToSet(op.parents) : Len(rs[x].placements) = 0
    /\ \A c \in SeqToSet(op.children) :
          \E p \in SeqToSet(rs[c].placements) : p.cur = "PsActive"

CheckComplete(rs, op) ==
    IF Complete(rs, op)
    THEN [x \in 1..Len(rs) |->
            IF IsParent(op, x) /\ RangeTransitionOk(rs[x].state, "RsObsolete")
            THEN [rs[x] EXCEPT !.state = "RsObsolete"] ELSE rs[x]]
    ELSE rs

\* ------------------------------------------------------------ orchestrator

\* Placement.Want
Want(p, state) == [p EXCEPT !.des = state]

\* Keyspace.PlacementToState
PlacementToState(p, state) == [p EXCEPT !.cur = state]

Keep(p) == [p |-> p, destroy |-> FALSE]
Destroy(p) == [p |-> p, destroy |-> TRUE]

\* PsPending case that does not take up a finished Prepare.
TickPending_StaysPending(p, ri) ==
    IF ri = "NsPreparing" THEN Keep(Want(p, "PsInactive"))
    ELSE IF ri = "NsInactive" THEN Keep(Want(p, "PsInactive"))
    ELSE IF ri = Absent
    THEN [p |-> Want(p, "PsInactive"), destroy |-> Failed(p, "Prepare")]
    ELSE Keep(PlacementToState(p, "PsMissing"))

\* PsPending case that keeps a placement whose Prepare has been given up.
TickPending_KeepsFailed(p, ri) ==
    IF ri = "NsPreparing" THEN Keep(Want(p, "PsInactive"))
    ELSE IF ri = "NsInactive" THEN Keep(PlacementToState(p, "PsInactive"))
    ELSE IF ri = Absent THEN Keep(Want(p, "PsInactive"))
    ELSE Keep(PlacementToState(p, "PsMissing"))

\* tickPlacement, PsPending case.
TickPending(p, ri) ==
    IF ri = "NsPreparing" THEN Keep(Want(p, "PsInactive"))
    ELSE IF ri = "NsInactive" THEN Keep(PlacementToState(p, "PsInactive"))
    ELSE IF ri = Absent
    THEN [p |-> Want(p, "PsInactive"), destroy |-> Failed(p, "Prepare")]
    ELSE Keep(PlacementToState(p, "PsMissing"))

\* TickInactive granting the drop without consulting MayDrop.
TickInactive_DropUngated(rs, p, ri, rid, op) ==
    IF ri = Absent
    THEN IF Failed(p, "Serve") THEN Destroy(p)
         ELSE Keep(PlacementToState(p, "PsDropped"))
    ELSE IF ri = "NsInactive"
    THEN IF MayActivate(rs, p, rid, op) THEN Keep(Want(p, "PsActive"))
         ELSE Keep(Want(p, "PsDropped"))
    ELSE IF ri = "NsActivating" THEN Keep(Want(p, "PsActive"))
    ELSE IF ri = "NsDropping" THEN Keep(Want(p, "PsDropped"))
    ELSE IF ri = "NsActive" THEN Keep(PlacementToState(p, "PsActive"))
    ELSE Keep(PlacementToState(p, "PsMissing"))

\* TickInactive granting the activation without consulting MayActivate.
TickInactive_ActivateUngated(rs, p, ri, rid, op) ==
    IF ri = Absent
    THEN IF Failed(p, "Serve") THEN Destroy(p)
         ELSE IF MayDrop(rs, p, rid, op)
         THEN Keep(PlacementToState(p, "PsDropped"))
         ELSE Keep(PlacementToState(p, "PsMissing"))
    ELSE IF ri = "NsInactive"
    THEN IF ~Failed(p, "Serve") THEN Keep(Want(p, "PsActive"))
         ELSE IF MayDrop(rs, p, rid, op) THEN Keep(Want(p, "PsDropped"))
         ELSE Keep(p)
    ELSE IF ri = "NsActivating" THEN Keep(Want(p, "PsActive"))
    ELSE IF ri = "NsDropping" THEN Keep(Want(p, "PsDropped"))
    ELSE IF ri = "NsActive" THEN Keep(PlacementToState(p, "PsActive"))
    ELSE Keep(PlacementToState(p, "PsMissing"))

\* TickInactive that never drops a placement whose Serve was given up.
TickInactive_KeepsGivenUp(rs, p, ri, rid, op) ==
    IF ri = Absent
    THEN IF Failed(p, "Serve") THEN Destroy(p)
         ELSE IF MayDrop(rs, p, rid, op)
         THEN Keep(PlacementToState(p, "PsDropped"))
         ELSE Keep(PlacementToState(p, "PsMissing"))
    ELSE IF ri = "NsInactive"
    THEN IF MayActivate(rs, p, rid, op) THEN Keep(Want(p, "PsActive"))
         ELSE IF ~Failed(p, "Serve") /\ MayDrop(rs, p, rid, op)
         THEN Keep(Want(p, "PsDropped"))
         ELSE Keep(p)
    ELSE IF ri = "NsActivating" THEN Keep(Want(p, "PsActive"))
    ELSE IF ri = "NsDropping" THEN Keep(Want(p, "PsDropped"))
    ELSE IF ri = "NsActive" THEN Keep(PlacementToState(p, "PsActive"))
    ELSE Keep(PlacementToState(p, "PsMissing"))

\* tickPlacement, PsInactive case.
TickInactive(rs, p, ri, rid, op) ==
    IF ri = Absent
    THEN IF Failed(p, "Serve") THEN Destroy(p)
         ELSE IF MayDrop(rs, p, rid, op)
         THEN Keep(PlacementToState(p, "PsDropped"))
         ELSE Keep(PlacementToState(p, "PsMissing"))
    ELSE IF ri = "NsInactive"
    THEN IF MayActivate(rs, p, rid, op) THEN Keep(Want(p, "PsActive"))
         ELSE IF MayDrop(rs, p, rid, op) THEN Keep(Want(p, "PsDropped"))
         ELSE Keep(p)
    ELSE IF ri = "NsActivating" THEN Keep(Want(p, "PsActive"))
    ELSE IF ri = "NsDropping" THEN Keep(Want(p, "PsDropped"))
    ELSE IF ri = "NsActive" THEN Keep(PlacementToState(p, "PsActive"))
    ELSE Keep(PlacementToState(p, "PsMissing"))

\* PsActive case that asks for the deactivation without consulting
\* MayDeactivate.
TickActive_DeactivateUngated(rs, p, ri, rid, op) ==
    IF ri = Absent THEN Keep(PlacementToState(p, "PsMissing"))
    ELSE IF ri = "NsActive"
    THEN IF \E q \in SeqToSet(rs[rid].placements) : q.repl = p.node
         THEN Keep(Want(p, "PsInactive"))
         ELSE Keep(p)
    ELSE IF ri = "NsDeactivating" THEN Keep(Want(p, "PsInactive"))
    ELSE IF ri = "NsInactive" THEN Keep(PlacementToState(p, "PsInactive"))
    ELSE Keep(PlacementToState(p, "PsMissing"))

\* PsActive case that deactivates the placement of a Subsuming range at
\* once, whatever the state of the children.
TickActive_TakeAtOnce(rs, p, ri, rid, op) ==
    IF ri = Absent THEN Keep(PlacementToState(p, "PsMissing"))
    ELSE IF ri = "NsActive"
    THEN IF rs[rid].state = "RsSubsuming" \/ MayDeactivate(rs, p, rid, op)
         THEN Keep(Want(p, "PsInactive"))
         ELSE Keep(p)
    ELSE IF ri = "NsDeactivating" THEN Keep(Want(p, "PsInactive"))
    ELSE IF ri = "NsInactive" THEN Keep(PlacementToState(p, "PsInactive"))
    ELSE Keep(PlacementToState(p, "PsMissing"))

\* tickPlacement, PsActive case.
TickActive(rs, p, ri, rid, op) ==
    IF ri = Absent THEN Keep(PlacementToState(p, "PsMissing"))
    ELSE IF ri = "NsActive"
    THEN IF MayDeactivate(rs, p, rid, op) THEN Keep(Want(p, "PsInactive"))
         ELSE Keep(p)
    ELSE IF ri = "NsDeactivating" THEN Keep(Want(p, "PsInactive"))
    ELSE IF ri = "NsInactive" THEN Keep(PlacementToState(p, "PsInactive"))
    ELSE Keep(PlacementToState(p, "PsMissing"))

\* Orchestrator.tickPlacement: the placement after the tick and whether it
\* is to be destroyed.
tickPlacement(rs, ros, rid, i, op) ==
    LET p0 == rs[rid].placements[i]
        found == \E pp \in SeqToSet(rs[rid].placements) : pp.node = p0.repl
        p == IF p0.repl # NoNode /\ ~found
             THEN [p0 EXCEPT !.repl = NoNode] ELSE p0
        ri == Get(ros, p.node, rid)
        rs1 == [rs EXCEPT ![rid].placements[i] = p]
    IN CASE p.cur = "PsPending" -> TickPending(p, ri)
         [] p.cur = "PsInactive" -> TickInactive(rs1, p, ri, rid, op)
         [] p.cur = "PsActive" -> TickActive(rs1, p, ri, rid, op)
         [] p.cur = "PsMissing" -> Keep(PlacementToState(p, "PsDropped"))
         [] p.cur = "PsDropped" -> Destroy(p)

\* The placement loop of tickRange: ticks placement i and the following
\* ones in order, each seeing the changes of the earlier ones; returns the
\* ranges and the indices to destroy.
RECURSIVE TickPlacementsFrom(_, _, _, _, _, _)
TickPlacementsFrom(rs, ros, rid, i, op, toDestroy) ==
    IF i > Len(rs[rid].placements) THEN [rs |-> rs, toDestroy |-> toDestroy]
    ELSE LET t == tickPlacement(rs, ros, rid, i, op)
         IN TickPlacementsFrom([rs EXCEPT ![rid].placements[i] = t.p], ros,
                rid, i + 1, op,
                IF t.destroy THEN Append(toDestroy, i) ELSE toDestroy)

\* The removal loop of tickRange: removes the collected indices one after
\* the other from the (shrinking) slice; an index beyond the slice panics.
RECURSIVE DestroyAll(_, _)
DestroyAll(placements, toDestroy) ==
    IF toDestroy = <<>> THEN [placements |-> placements, panic |-> FALSE]
    ELSE IF Head(toDestroy) > Len(placements)
    THEN [placements |-> placements, panic |-> TRUE]
    ELSE DestroyAll(RemoveAt(placements, Head(toDestroy)), Tail(toDestroy))

\* Roster.Candidate: a node satisfying the constraint that does not already
\* hold a placement of the range (rid = 0 when no range is given); NoNode
\* when there is none.  The node preferred by the roster in this tick is
\* taken when eligible, otherwise a node that has not failed a placement of
\* the range before one that has, then the least loaded one, then the least
\* id.
NodeRank == [n \in Nodes |-> CASE n = "aaa" -> 1 [] n = "bbb" -> 2 [] OTHER -> 3]

Load(rs, n) ==
    Cardinality({x \in (1..Len(rs)) \X (1..4) :
        /\ x[2] <= Len(rs[x[1]].placements)
        /\ rs[x[1]].placements[x[2]].node = n})

Candidate(rs, rid, c, pref) ==
    LET holds(n) == rid # 0 /\ \E q \in SeqToSet(rs[rid].placements) : q.node = n
        elig == {n \in Nodes : ~holds(n) /\ (c = AnyNode \/ c = n)}
        failed(n) == rid # 0 /\ n \in rs[rid].failedOn
        cost(n) == (IF failed(n) THEN 100 ELSE 0) + Load(rs, n) * 10 + NodeRank[n]
    IN IF elig = {} THEN NoNode
       ELSE IF pref \in elig THEN pref
       ELSE CHOOSE n \in elig : \A m \in elig : cost(n) <= cost(m)

\* The tick threads one record through its steps:
\*   rs  the ranges, mv  opMoves, sp  opSplits, pn  panicked
St(rs, mv, sp, pn) == [rs |-> rs, mv |-> mv, sp |-> sp, pn |-> pn]

\* Orchestrator.moveOp: index of the first queued move of the range, or 0.
moveOp(mv, rid) ==
    IF \E i \in 1..Len(mv) : mv[i].range = rid
    THEN CHOOSE i \in 1..Len(mv) :
            /\ mv[i].range = rid
            /\ \A j \in 1..(i - 1) : mv[j].range # rid
    ELSE 0

\* doMove putting the replacement on the node of the source placement.
doMove_OntoSource(rs, rid, opMove, pref) ==
    LET ps == rs[rid].placements
        isSrc(i) == IF opMove.src # NoNode THEN ps[i].node = opMove.src
                    ELSE ps[i].cur = "PsActive"
        found == \E i \in 1..Len(ps) : isSrc(i)
        src == ps[CHOOSE i \in 1..Len(ps) :
                     isSrc(i) /\ \A j \in 1..(i - 1) : ~isSrc(j)]
    IN IF ~found THEN [ok |-> FALSE, rs |-> rs]
       ELSE IF \E q \in SeqToSet(ps) : q.repl = src.node
       THEN [ok |-> FALSE, rs |-> rs]
       ELSE [ok |-> TRUE,
             rs |-> [rs EXCEPT ![rid].placements =
                        Append(@, NewReplacement(src.node, src.node))]]

\* doMove that does not look whether the source is already being replaced
\* and takes any node but the source as destination.
doMove_ReplacedAgain(rs, rid, opMove, pref) ==
    LET ps == rs[rid].placements
        isSrc(i) == IF opMove.src # NoNode THEN ps[i].node = opMove.src
                    ELSE ps[i].cur = "PsActive"
        found == \E i \in 1..Len(ps) : isSrc(i)
        src == ps[CHOOSE i \in 1..Len(ps) :
                     isSrc(i) /\ \A j \in 1..(i - 1) : ~isSrc(j)]
        dest == CHOOSE n \in Nodes : n # src.node
    IN IF ~found THEN [ok |-> FALSE, rs |-> rs]
       ELSE [ok |-> TRUE,
             rs |-> [rs EXCEPT ![rid].placements =
                        Append(@, NewReplacement(dest, src.node))]]

\* Orchestrator.doMove: the source placement (given node, else the first
\* active one), refused when it is already being replaced or no destination
\* is available; otherwise a replacement placement is appended.
doMove(rs, rid, opMove, pref) ==
    LET ps == rs[rid].placements
        isSrc(i) == IF opMove.src # NoNode THEN ps[i].node = opMove.src
                    ELSE ps[i].cur = "PsActive"
        found == \E i \in 1..Len(ps) : isSrc(i)
        src == ps[CHOOSE i \in 1..Len(ps) :
                     isSrc(i) /\ \A j \in 1..(i - 1) : ~isSrc(j)]
        dest == Candidate(rs, rid,
                    IF opMove.dest = NoNode THEN AnyNode ELSE opMove.dest, pref)
    IN IF ~found THEN [ok |-> FALSE, rs |-> rs]
       ELSE IF \E q \in SeqToSet(ps) : q.repl = src.node
       THEN [ok |-> FALSE, rs |-> rs]
       ELSE IF dest = NoNode THEN [ok |-> FALSE, rs |-> rs]
       ELSE [ok |-> TRUE,
             rs |-> [rs EXCEPT ![rid].placements =
                        Append(@, NewReplacement(dest, src.node))]]

\* tickRange, final part: tick every placement, then remove the destroyed.
tickPlacements(S, ros, rid, op) ==
    LET t == TickPlacementsFrom(S.rs, ros, rid, 1, op, <<>>)
        d == DestroyAll(t.rs[rid].placements, t.toDestroy)
    IN [S EXCEPT !.rs = [t.rs EXCEPT ![rid].placements = d.placements],
                 !.pn = d.panic]

\* tickRange, RsActive case, split request.
tickSplit(S, ros, rid, op, prefs) ==
    LET req == CHOOSE x \in S.sp : x.range = rid
        sp1 == S.sp \ {req}
        nIDL == Candidate(S.rs, 0, AnyNode, prefs[1])
        nIDR == Candidate(S.rs, 0, AnyNode, prefs[2])
        rs1 == DoSplit(S.rs, rid, req.key)
        rL == Len(S.rs) + 1
        rR == Len(S.rs) + 2
        rs2 == [rs1 EXCEPT ![rL].placements = <<NewPlacement(nIDL)>>,
                           ![rR].placements = <<NewPlacement(nIDR)>>]
    IN IF ~\E x \in S.sp : x.range = rid THEN tickPlacements(S, ros, rid, op)
       ELSE IF nIDL = NoNode \/ nIDR = NoNode THEN [S EXCEPT !.sp = sp1]
       ELSE IF SplitError(S.rs, rid, req.key) # "" THEN [S EXCEPT !.sp = sp1]
       ELSE tickPlacements([S EXCEPT !.sp = sp1, !.rs = rs2], ros, rid, op)

\* tickRange, RsActive case, move request.
tickMove(S, ros, rid, op, prefs) ==
    LET i == moveOp(S.mv, rid)
        m == doMove(S.rs, rid, S.mv[i], prefs[1])
        S1 == [S EXCEPT !.mv = RemoveAt(S.mv, i)]
    IN IF i = 0 THEN tickSplit(S, ros, rid, op, prefs)
       ELSE IF ~m.ok THEN S1
       ELSE tickSplit([S1 EXCEPT !.rs = m.rs], ros, rid, op, prefs)

\* tickRange adding a placement whenever a node is free for the range.
tickRange_AlwaysPlace(S, ros, rid, op, prefs) ==
    LET r == S.rs[rid]
        nID == Candidate(S.rs, rid, AnyNode, prefs[1])
    IN IF S.pn THEN S
       ELSE IF r.state # "RsActive" THEN tickPlacements(S, ros, rid, op)
       ELSE IF nID = NoNode THEN tickMove(S, ros, rid, op, prefs)
       ELSE tickMove([S EXCEPT !.rs[rid].placements =
                         Append(@, NewPlacement(nID))], ros, rid, op, prefs)

\* tickRange placing a range without placements whatever its state.
tickRange_AnyState(S, ros, rid, op, prefs) ==
    LET r == S.rs[rid]
        nID == Candidate(S.rs, rid, AnyNode, prefs[1])
        placed == [S EXCEPT !.rs[rid].placements =
                      Append(@, NewPlacement(nID))]
    IN IF S.pn THEN S
       ELSE IF Len(r.placements) >= MinPlacements
       THEN IF r.state # "RsActive" THEN tickPlacements(S, ros, rid, op)
            ELSE tickMove(S, ros, rid, op, prefs)
       ELSE IF nID = NoNode THEN S
       ELSE IF r.state # "RsActive" THEN tickPlacements(placed, ros, rid, op)
       ELSE tickMove(placed, ros, rid, op, prefs)

\* Orchestrator.tickRange
tickRange(S, ros, rid, op, prefs) ==
    LET r == S.rs[rid]
        nID == Candidate(S.rs, rid, AnyNode, prefs[1])
    IN IF S.pn THEN S
       ELSE IF r.state # "RsActive" THEN tickPlacements(S, ros, rid, op)
       ELSE IF Len(r.placements) >= MinPlacements
       THEN tickMove(S, ros, rid, op, prefs)
       ELSE IF nID = NoNode THEN S
       ELSE tickMove([S EXCEPT !.rs[rid].placements =
                         Append(@, NewPlacement(nID))], ros, rid, op, prefs)

\* The queued joins, the child placed on any node whatever node was asked for.
RECURSIVE tickJoins_AnyDest(_, _, _, _)
tickJoins_AnyDest(rs, joins, k, pref) ==
    IF k > Len(joins) THEN rs
    ELSE LET j == joins[k]
             known == j.left \in 1..Len(rs) /\ j.right \in 1..Len(rs)
             nIDr3 == Candidate(rs, 0, AnyNode, pref)
             res == JoinTwo(rs, j.left, j.right)
             r3 == Len(rs) + 1
         IN IF ~known \/ nIDr3 = NoNode \/ JoinError(rs, j.left, j.right) # ""
            THEN tickJoins_AnyDest(rs, joins, k + 1, pref)
            ELSE IF ~res.ok THEN tickJoins_AnyDest(res.rs, joins, k + 1, pref)
            ELSE tickJoins_AnyDest([res.rs EXCEPT ![r3].placements =
                               <<NewPlacement(nIDr3)>>], joins, k + 1, pref)

\* Tick, first part: the queued joins, in order.  A join naming an unknown
\* range, finding no candidate or refused by the keyspace is skipped.
RECURSIVE tickJoins(_, _, _, _)
tickJoins(rs, joins, k, pref) ==
    IF k > Len(joins) THEN rs
    ELSE LET j == joins[k]
             known == j.left \in 1..Len(rs) /\ j.right \in 1..Len(rs)
             c == IF j.dest # NoNode THEN j.dest ELSE AnyNode
             nIDr3 == Candidate(rs, 0, c, pref)
             res == JoinTwo(rs, j.left, j.right)
             r3 == Len(rs) + 1
         IN IF ~known \/ nIDr3 = NoNode \/ JoinError(rs, j.left, j.right) # ""
            THEN tickJoins(rs, joins, k + 1, pref)
            ELSE IF ~res.ok THEN tickJoins(res.rs, joins, k + 1, pref)
            ELSE tickJoins([res.rs EXCEPT ![r3].placements =
                               <<NewPlacement(nIDr3)>>], joins, k + 1, pref)

\* tickRange over a list of ranges, all under the same operation.
RECURSIVE tickRanges(_, _, _, _, _, _)
tickRanges(S, ros, rids, k, op, prefs) ==
    IF k > Len(rids) THEN S
    ELSE tickRanges(tickRange(S, ros, rids[k], op, prefs), ros, rids, k + 1,
                    op, prefs)

\* tickOps never completing an operation.
RECURSIVE tickOps_NoCheckComplete(_, _, _, _, _)
tickOps_NoCheckComplete(S, ros, ops, k, prefs) ==
    IF k > Len(ops) THEN S
    ELSE tickOps_NoCheckComplete(
             tickRanges(S, ros, OpRanges(ops[k]), 1, ops[k], prefs),
             ros, ops, k + 1, prefs)

\* tickOps completing an operation after ticking its ranges.
RECURSIVE tickOps_CheckCompleteLast(_, _, _, _, _)
tickOps_CheckCompleteLast(S, ros, ops, k, prefs) ==
    IF k > Len(ops) THEN S
    ELSE LET S1 == tickRanges(S, ros, OpRanges(ops[k]), 1, ops[k], prefs)
             S2 == IF S1.pn THEN S1
                   ELSE [S1 EXCEPT !.rs = CheckComplete(S1.rs, ops[k])]
         IN tickOps_CheckCompleteLast(S2, ros, ops, k + 1, prefs)

\* Tick, second part: every operation in flight is completed if possible,
\* then its ranges are ticked, parents first.
RECURSIVE tickOps(_, _, _, _, _)
tickOps(S, ros, ops, k, prefs) ==
    IF k > Len(ops) THEN S
    ELSE LET S1 == IF S.pn THEN S
                   ELSE [S EXCEPT !.rs = CheckComplete(S.rs, ops[k])]
         IN tickOps(tickRanges(S1, ros, OpRanges(ops[k]), 1, ops[k], prefs),
                    ros, ops, k + 1, prefs)

\* Tick, third part: the ranges that existed when the tick began, except
\* the obsolete ones and those ticked with their operation.
RECURSIVE tickRest(_, _, _, _, _, _)
tickRest(S, ros, n, rid, visited, prefs) ==
    IF rid > n THEN S
    ELSE IF S.rs[rid].state = "RsObsolete" \/ rid \in visited
    THEN tickRest(S, ros, n, rid + 1, visited, prefs)
    ELSE tickRest(tickRange(S, ros, rid, NoOp, prefs), ros, n, rid + 1,
                  visited, prefs)

\* Orchestrator.Tick
Tick(rs, ros, mv, sp, joins, prefs) ==
    LET rs1 == tickJoins(rs, joins, 1, prefs[1])
        ops == Operations(rs1)
        visited == UNION {SeqToSet(OpRanges(ops[k])) : k \in 1..Len(ops)}
        S1 == tickOps(St(rs1, mv, sp, FALSE), ros, ops, 1, prefs)
    IN tickRest(S1, ros, Len(rs), 1, visited, prefs)

\* ---------------------------------------------------------------- actuator

\* The command that moves a placement from its current to its desired state.
ActionFor(p) ==
    CASE p.cur = "PsPending" /\ p.des = "PsInactive" -> "Prepare"
      [] p.cur = "PsInactive" /\ p.des = "PsActive" -> "Serve"
      [] p.cur = "PsActive" /\ p.des = "PsInactive" -> "Take"
      [] p.cur = "PsInactive" /\ p.des = "PsDropped" -> "Drop"
      [] OTHER -> "None"

\* The placements the actuator sends a command for.
Slots(rs) ==
    {x \in (1..Len(rs)) \X (1..4) :
        /\ x[2] <= Len(rs[x[1]].placements)
        /\ ActionFor(rs[x[1]].placements[x[2]]) # "None"
        /\ ~Failed(rs[x[1]].placements[x[2]],
                   ActionFor(rs[x[1]].placements[x[2]]))}

CmdOf(rs, x) ==
    [range |-> x[1], node |-> rs[x[1]].placements[x[2]].node,
     action |-> ActionFor(rs[x[1]].placements[x[2]])]

\* mock Actuator.cmd: the injected response of a command if there is one
\* ("fail" for an error, else the remote state to answer), else the default.
cmd(inj, c) ==
    IF \E e \in inj : e.cmd = c
    THEN (CHOOSE e \in inj : e.cmd = c).response
    ELSE mustDefault(c.action)

\* Command sent also for a placement whose action has been given up.
Command_IgnoreFailed(ros, rs, inj) ==
    LET all == {x \in (1..Len(rs)) \X (1..4) :
                  /\ x[2] <= Len(rs[x[1]].placements)
                  /\ ActionFor(rs[x[1]].placements[x[2]]) # "None"}
    IN [n \in Nodes |-> [rid \in RangeIds |->
        IF \E x \in all : CmdOf(rs, x).range = rid /\ CmdOf(rs, x).node = n
                              /\ cmd(inj, CmdOf(rs, x)) # "fail"
        THEN cmd(inj, CmdOf(rs, CHOOSE x \in all :
                        /\ CmdOf(rs, x).range = rid
                        /\ CmdOf(rs, x).node = n
                        /\ cmd(inj, CmdOf(rs, x)) # "fail"))
        ELSE ros[n][rid]]]

\* Command that stops sending Drop once its failures have been counted up.
Command_DropGivenUp(ros, rs, inj) ==
    LET some == {x \in Slots(rs) :
                   ~(ActionFor(rs[x[1]].placements[x[2]]) = "Drop"
                     /\ rs[x[1]].placements[x[2]].fails["Drop"] >= MaxDropFailures)}
    IN [n \in Nodes |-> [rid \in RangeIds |->
        IF \E x \in some : CmdOf(rs, x).range = rid /\ CmdOf(rs, x).node = n
                              /\ cmd(inj, CmdOf(rs, x)) # "fail"
        THEN cmd(inj, CmdOf(rs, CHOOSE x \in some :
                        /\ CmdOf(rs, x).range = rid
                        /\ CmdOf(rs, x).node = n
                        /\ cmd(inj, CmdOf(rs, x)) # "fail"))
        ELSE ros[n][rid]]]

\* mock Actuator.Command over all commands of a tick: on success the roster
\* records the remote state returned; on error nothing is recorded.
Command(ros, rs, inj) ==
    [n \in Nodes |-> [rid \in RangeIds |->
        IF \E x \in Slots(rs) : CmdOf(rs, x).range = rid /\ CmdOf(rs, x).node = n
                                   /\ cmd(inj, CmdOf(rs, x)) # "fail"
        THEN cmd(inj, CmdOf(rs, CHOOSE x \in Slots(rs) :
                        /\ CmdOf(rs, x).range = rid
                        /\ CmdOf(rs, x).node = n
                        /\ cmd(inj, CmdOf(rs, x)) # "fail"))
        ELSE ros[n][rid]]]

\* Actuator: a failed command counts against the placement.  A failed Drop
\* is never given up; its count is kept up to MaxDropFailures only.  The
\* roster remembers the node of a failed Prepare or Serve for the range.
incrementError(rs, inj) ==
    LET fails(rid, i) ==
            /\ <<rid, i>> \in Slots(rs)
            /\ cmd(inj, CmdOf(rs, <<rid, i>>)) = "fail"
    IN [rid \in 1..Len(rs) |-> [rs[rid] EXCEPT
        !.placements =
            [i \in 1..Len(rs[rid].placements) |->
                LET q == rs[rid].placements[i]
                IN IF fails(rid, i)
                   THEN [q EXCEPT !.fails[ActionFor(q)] =
                            IF ActionFor(q) = "Drop" /\ @ = MaxDropFailures
                            THEN @ ELSE @ + 1]
                   ELSE q],
        !.failedOn = @ \cup
            {rs[rid].placements[i].node : i \in
                {j \in 1..Len(rs[rid].placements) :
                    /\ fails(rid, j)
                    /\ ActionFor(rs[rid].placements[j]) \in
                          {"Prepare", "Serve"}}}]]

\* ------------------------------------------------------------ storage node

\* The example node: Node.data maps an ident to its RangeData (state and
\* stored keys), Node.ranges lists the RangeMeta of the ranges held.
Idents == 1..NumIdents

\* the ident is not in Node.data
NoRange == [state |-> "none", data |-> {}]

NoReply == [call |-> "none", ident |-> 0, flag |-> FALSE, ok |-> TRUE,
            state |-> "none"]

EmptyNode ==
    [data |-> [i \in Idents |-> NoRange], ranges |-> <<>>, reply |-> NoReply]

\* the RangeMeta sent for an ident: range i holds the keys from i up to i + 1
MetaOf(i) == [ident |-> i, start |-> i, end |-> i + 1]

\* Ranges.Remove: the last element takes the place of the removed one.
RangesRemove(rms, i) ==
    LET idx == CHOOSE j \in 1..Len(rms) : rms[j].ident = i
    IN [j \in 1..(Len(rms) - 1) |-> IF j = idx THEN rms[Len(rms)] ELSE rms[j]]

\* Ranges.Find: the ident of the first range that contains the key, or 0.
RangesFind(rms, k) ==
    IF \E j \in 1..Len(rms) : Contains(rms[j], k)
    THEN rms[CHOOSE j \in 1..Len(rms) :
                /\ Contains(rms[j], k)
                /\ \A h \in 1..(j - 1) : ~Contains(rms[h], k)].ident
    ELSE 0

\* the response of a call: success or error, and the state it carries
\* (only GiveResponse has a state field)
Reply(call, i, flag, ok, state) ==
    [call |-> call, ident |-> i, flag |-> flag, ok |-> ok, state |-> state]

\* nodeServer.Give: refused when the ident is held, unless its fetch had
\* failed; a range with parents is fetched (fetchMany, which may fail and
\* may have stored keys by then), a range without parents is Ready at once.
Give(n, i, parents, fetchOk, got) ==
    LET rd == n.data[i]
        have == rd.state # "none"
        retry == have /\ rd.state = "StateFetchFailed"
        n1 == IF retry
              THEN [n EXCEPT !.data[i] = NoRange,
                             !.ranges = RangesRemove(@, i)]
              ELSE n
        st == IF ~parents THEN "StateReady"
              ELSE IF fetchOk THEN "StateFetched" ELSE "StateFetchFailed"
        rd1 == [state |-> st, data |-> IF parents THEN got ELSE {}]
    IN IF have /\ ~retry
       THEN [n EXCEPT !.reply = Reply("Give", i, parents, FALSE, "none")]
       ELSE [n1 EXCEPT !.data[i] = rd1,
                       !.ranges = Append(@, MetaOf(i)),
                       !.reply = Reply("Give", i, parents, TRUE, st)]

\* nodeServer.Serve
Serve(n, i, force) ==
    LET rd == n.data[i] IN
    IF rd.state = "none" \/ (rd.state # "StateFetched" /\ ~force)
    THEN [n EXCEPT !.reply = Reply("Serve", i, force, FALSE, "none")]
    ELSE [n EXCEPT !.data[i].state = "StateReady",
                   !.reply = Reply("Serve", i, force, TRUE, "none")]

\* nodeServer.Take
Take(n, i) ==
    LET rd == n.data[i] IN
    IF rd.state = "none" \/ rd.state # "StateReady"
    THEN [n EXCEPT !.reply = Reply("Take", i, FALSE, FALSE, "none")]
    ELSE [n EXCEPT !.data[i].state = "StateTaken",
                   !.reply = Reply("Take", i, FALSE, TRUE, "none")]

\* nodeServer.Drop
Drop(n, i, force) ==
    LET rd == n.data[i] IN
    IF \/ rd.state = "none"
       \/ rd.state = "StateFetching"
       \/ (rd.state # "StateTaken" /\ ~force)
    THEN [n EXCEPT !.reply = Reply("Drop", i, force, FALSE, "none")]
    ELSE [n EXCEPT !.data[i] = NoRange,
                   !.ranges = RangesRemove(@, i),
                   !.reply = Reply("Drop", i, force, TRUE, "none")]

\* kvServer.Put: a nil value deletes the key.
Put(n, k, del) ==
    LET i == RangesFind(n.ranges, k) IN
    IF i = 0 \/ n.data[i].state # "StateReady"
    THEN [n EXCEPT !.reply = Reply("Put", i, del, FALSE, "none")]
    ELSE [n EXCEPT !.data[i].data = IF del THEN @ \ {k} ELSE @ \cup {k},
                   !.reply = Reply("Put", i, del, TRUE, "none")]

\* --------------------------------------------------------------- persister

\* The SQL store: the rows of the tables range, child and placement, and
\* what the caller has seen: the catalog last handed to PutRanges, whether
\* that call returned an error, how many calls were made, and the result of
\* a GetRanges made since.
NotRead == [read |-> FALSE, ranges |-> {}]

EmptyStore ==
    [range |-> {}, child |-> {}, placement |-> {},
     put |-> <<>>, err |-> FALSE, puts |-> 0, got |-> NotRead]

StoredIds == 1..NumStored

RangeStates == {"RsActive", "RsSubsuming", "RsObsolete"}

PlacementStates ==
    {"PsPending", "PsInactive", "PsActive", "PsMissing", "PsDropped",
     "PsGiveUp"}

\* RangeState.String, PlacementState.String, NodeID.String: the TEXT value
\* written to a column
Text(x) == [text |-> x]

parsePlacementStateString(in) ==
    CASE in = Text("PsPending") -> "PsPending"
      [] in = Text("PsInactive") -> "PsInactive"
      [] in = Text("PsActive") -> "PsActive"
      [] in = Text("PsMissing") -> "PsMissing"
      [] in = Text("PsDropped") -> "PsDropped"
      [] OTHER -> "PsUnknown"

parseRangeStateString(in) ==
    CASE in = Text("RsActive") -> "RsActive"
      [] in = Text("RsSubsuming") -> "RsSubsuming"
      [] in = Text("RsObsolete") -> "RsObsolete"
      [] OTHER -> "RsUnknown"

\* the statements PutRanges executes for one range, in order: the range
\* row, a child row per parent, a child row per child, a row per placement
StmtsOf(r) ==
    <<[table |-> "range",
       row |-> [id |-> r.ident, start |-> r.start, end |-> r.end,
                state |-> Text(r.state)]]>>
    \o [i \in 1..Len(r.parents) |->
          [table |-> "child",
           row |-> [parentId |-> r.parents[i], childId |-> r.ident]]]
    \o [i \in 1..Len(r.children) |->
          [table |-> "child",
           row |-> [parentId |-> r.ident, childId |-> r.children[i]]]]
    \o [i \in 1..Len(r.placements) |->
          [table |-> "placement",
           row |-> [rangeId |-> r.ident,
                    nodeId |-> Text(r.placements[i].node),
                    stateCurrent |-> Text(r.placements[i].cur),
                    stateDesired |-> Text(r.placements[i].des)]]]

RECURSIVE Stmts(_, _)
Stmts(c, k) == IF k > Len(c) THEN <<>> ELSE StmtsOf(c[k]) \o Stmts(c, k + 1)

\* the INSERT breaks the PRIMARY KEY of its table
Duplicate(t, stmt) ==
    CASE stmt.table = "range" -> \E x \in t.range : x.id = stmt.row.id
      [] stmt.table = "child" -> stmt.row \in t.child
      [] stmt.table = "placement" ->
            \E x \in t.placement :
               x.rangeId = stmt.row.rangeId /\ x.nodeId = stmt.row.nodeId

Insert(t, stmt) ==
    CASE stmt.table = "range" -> [t EXCEPT !.range = @ \cup {stmt.row}]
      [] stmt.table = "child" -> [t EXCEPT !.child = @ \cup {stmt.row}]
      [] stmt.table = "placement" ->
            [t EXCEPT !.placement = @ \cup {stmt.row}]

\* the statements run in one transaction: the first error ends it
RECURSIVE Exec(_, _, _)
Exec(t, stmts, k) ==
    IF k > Len(stmts) THEN [ok |-> TRUE, t |-> t]
    ELSE IF Duplicate(t, stmts[k]) THEN [ok |-> FALSE, t |-> t]
    ELSE Exec(Insert(t, stmts[k]), stmts, k + 1)

\* Persister.PutRanges: commit when every statement succeeded, else the
\* deferred Rollback leaves the tables as they were.
PutRanges(st, c) ==
    LET res == Exec(st, Stmts(c, 1), 1)
        seen == [put |-> c, puts |-> st.puts + 1, got |-> NotRead]
    IN IF res.ok
       THEN [range |-> res.t.range, child |-> res.t.child,
             placement |-> res.t.placement, err |-> FALSE] @@ seen
       ELSE [range |-> st.range, child |-> st.child,
             placement |-> st.placement, err |-> TRUE] @@ seen

\* Persister.GetParents, GetChildren, GetPlacements (the order of the rows
\* is not modelled)
GetParents(st, id) == {x.parentId : x \in {y \in st.child : y.childId = id}}

GetChildren(st, id) == {x.childId : x \in {y \in st.child : y.parentId = id}}

GetPlacements(st, id) ==
    {[node |-> x.nodeId.text,
      cur |-> parsePlacementStateString(x.stateCurrent),
      des |-> parsePlacementStateString(x.stateDesired)] :
        x \in {y \in st.placement : y.rangeId = id}}

\* Persister.GetRanges
GetRanges(st) ==
    {[ident |-> x.id, start |-> x.start, end |-> x.end,
      state |-> parseRangeStateString(x.state),
      parents |-> GetParents(st, x.id),
      children |-> GetChildren(st, x.id),
      placements |-> GetPlacements(st, x.id)] : x \in st.range}


\* --------------------------------------------------------------- reconciler

NumReported == 2

\* The ranges the reconciler's keyspace and the node's report may name.
ReconIds == 1..NumReported

SpGone == "SpGone"

\* Controller-side placement states of the reconciler's keyspace.
ReconStates == {"SpPending", "SpReady", "SpTaken", SpGone, "SpDropped"}

\* Remote states a node reports for a range.
ReportStates == {"StatePreparing", "StateReady", "StateTaken"}

\* No placement of the range on the node.
NoPlacement == [State |-> "none", Position |-> 0]

\* RemoteState.ToStatePlacement
ToStatePlacement(rs) ==
    CASE rs = "StatePreparing" -> "SpPending"
      [] rs = "StateReady" -> "SpReady"
      [] rs = "StateTaken" -> "SpTaken"

\* The placement transitions that move forward.
ReconForward(old, new) ==
    \/ old = "SpPending" /\ new = "SpReady"
    \/ old = "SpReady" /\ new = "SpTaken"
    \/ old = "SpTaken" /\ new = "SpDropped"
    \/ old \in {"SpPending", "SpReady", "SpTaken"} /\ new = SpGone
    \/ old = SpGone /\ new = "SpDropped"

\* Keyspace.PlacementToState as the reconciler uses it: the validated
\* transition; an invalid one returns an error, which the reconciler logs.
ReconToState(pl, new) ==
    IF ReconForward(pl.State, new) THEN [pl EXCEPT !.State = new] ELSE pl

\* Keyspace.PlacementsByNodeID: the ranges with a placement on the node.
PlacementsByNodeID(ks) == {id \in ReconIds : ks[id] # NoPlacement}

Reported(report) == {report[i].id : i \in 1..Len(report)}

StateIn(report, id) ==
    report[CHOOSE i \in 1..Len(report) : report[i].id = id].state

MaxOf(S) == CHOOSE x \in S : \A y \in S : y <= x

\* One iteration of the loop over the states map, for range id.  The map
\* holds the addresses of the two loop variables pbnid and rInfo: where the
\* loop variable is one variable for the whole loop (shared), every entry
\* points at the last placement and the last reported range.
ReconPair(ks, report, shared, id) ==
    LET hasExpected == id \in PlacementsByNodeID(ks)
        hasActual == id \in Reported(report)
        e == IF shared THEN MaxOf(PlacementsByNodeID(ks)) ELSE id
        act == ToStatePlacement(IF shared THEN report[Len(report)].state
                                ELSE StateIn(report, id))
    IN IF hasExpected
       THEN IF hasActual
            THEN IF ks[e].State # act
                 THEN [ks EXCEPT ![e] = ReconToState(ks[e], act)]
                 ELSE ks
            ELSE IF ks[e].Position = 0 /\ ks[e].State # "SpPending"
                 THEN [ks EXCEPT ![e] = ReconToState(ks[e], SpGone)]
                 ELSE ks
       ELSE ks

RECURSIVE ReconPairs(_, _, _, _)
ReconPairs(ks, report, shared, order) ==
    IF order = <<>> THEN ks
    ELSE ReconPairs(ReconPair(ks, report, shared, Head(order)), report,
                    shared, Tail(order))

\* Reconciler.nodeInfo: the keyspace after the node's report was handled,
\* the states map being walked in the given order.
nodeInfo(ks, report, shared, order) == ReconPairs(ks, report, shared, order)

NoReport == [done |-> FALSE]

\* --------------------------------------------------------- DurablePlacement

SpStates == {"SpUnknown", "SpPending", "SpFetching", "SpFetched",
             "SpFetchFailed", "SpReady", "SpTaken", "SpDropped"}

\* NewPlacement: a Pending placement on a node; no call made on it yet.
NewDurable ==
    [State |-> "SpPending", NodeID |-> "aaa", call |-> "none",
     old |-> [State |-> "SpPending", NodeID |-> "aaa"],
     new |-> "SpPending", putFails |-> FALSE, err |-> "", panic |-> FALSE]

\* The transitions ToState accepts.
DurableOk(old, new) ==
    \/ old = "SpPending" /\ new \in {"SpFetching", "SpReady"}
    \/ old = "SpFetching" /\ new \in {"SpFetched", "SpFetchFailed"}
    \/ old = "SpFetched" /\ new = "SpReady"
    \/ old = "SpFetchFailed" /\ new = "SpPending"
    \/ old = "SpReady" /\ new = "SpTaken"
    \/ old = "SpTaken" /\ new \in {"SpDropped", "SpReady"}

\* The transitions on which ToState panics ("not implemented").
DurablePanics(old, new) ==
    \/ old = "SpFetching" /\ new = "SpFetchFailed"
    \/ old = "SpFetchFailed" /\ new = "SpPending"

\* DurablePlacement.ToState: the placement after the call, the error
\* returned ("" for nil) and whether the call panicked.  putFails: the
\* range's Put returns an error.
ToState(pl, new, putFails) ==
    LET old == pl.State
        out(q, err, pn) == [State |-> q.State, NodeID |-> q.NodeID,
                            err |-> err, panic |-> pn]
    IN IF new = "SpUnknown"
       THEN out(pl, "can't transition placement into SpUnknown", FALSE)
       ELSE IF old = "SpDropped"
       THEN out(pl, "can't transition placement out of SpDropped", FALSE)
       ELSE IF DurablePanics(old, new)
       THEN out(pl, "", TRUE)
       ELSE IF ~DurableOk(old, new)
       THEN out(pl, "invalid placement state transition", FALSE)
       ELSE LET q == IF old = "SpTaken" /\ new = "SpDropped"
                     THEN [pl EXCEPT !.NodeID = ""] ELSE pl
            IN IF putFails
               THEN out([q EXCEPT !.State = old],
                        "while persisting placement", FALSE)
               ELSE out([q EXCEPT !.State = new], "", FALSE)

\* ToState that restores the node id with the state.
ToState_RestoresNode(pl, new, putFails) ==
    LET r == ToState(pl, new, putFails)
    IN IF r.err # "" THEN [r EXCEPT !.NodeID = pl.NodeID] ELSE r

\* ToState without the two panics.
ToState_NoPanic(pl, new, putFails) ==
    IF DurablePanics(pl.State, new)
    THEN IF putFails
         THEN [State |-> pl.State, NodeID |-> pl.NodeID,
               err |-> "while persisting placement", panic |-> FALSE]
         ELSE [State |-> new, NodeID |-> pl.NodeID, err |-> "",
               panic |-> FALSE]
    ELSE ToState(pl, new, putFails)

\* Remote states a node may answer a Give with.
GiveStates == {"StateUnknown", "StateReady", "StateFetching", "StateFetched",
               "StateFetchFailed", "StateTaken"}

\* The ToState calls Node.Give makes for the remote state answered; none
\* for a state it does not expect, where it panics itself.
GiveSteps(rs) ==
    CASE rs = "StateReady" -> <<"SpReady">>
      [] rs = "StateFetching" -> <<"SpFetching">>
      [] rs = "StateFetched" -> <<"SpFetching", "SpFetched">>
      [] rs = "StateFetchFailed" -> <<"SpFetching", "SpFetchFailed">>
      [] OTHER -> <<>>

\* Node.Give after the RPC returned: the new Pending placement taken
\* through the steps; the errors of ToState are not looked at, a panic ends
\* the call.
RECURSIVE GiveFrom(_, _, _)
GiveFrom(pl, steps, putFails) ==
    IF steps = <<>> THEN pl
    ELSE LET r == ToState(pl, Head(steps), putFails)
         IN IF r.panic THEN r ELSE GiveFrom(r, Tail(steps), putFails)

NodeGiveTo(n, rs, putFails) ==
    LET pp == [State |-> "SpPending", NodeID |-> n, err |-> "",
               panic |-> FALSE]
    IN IF GiveSteps(rs) = <<>> THEN [pp EXCEPT !.panic = TRUE]
       ELSE GiveFrom(pp, GiveSteps(rs), putFails)

\* ------------------------------------------------------------------ actions

Init ==
    /\ ranges = <<NewRange(ZeroKey, ZeroKey, <<>>)>>
    /\ roster = [n \in Nodes |-> [rid \in RangeIds |-> Absent]]
    /\ opMoves = <<>>
    /\ opSplits = {}
    /\ opJoins = <<>>
    /\ injects = {}
    /\ nOps = 0
    /\ nInj = 0
    /\ panicked = FALSE
    /\ kvNode = EmptyNode
    /\ store = EmptyStore
    /\ opErrs = <<>>
    /\ recon = NoReport
    /\ durable = NewDurable

\* An Err channel of a split or join request (splitOp, joinOp): the values
\* sent on it, the times it was closed, and what will close it: the request
\* is still queued, or the callback hangs on the first placement of the
\* joined range (OnReady) or on the split range (OnObsolete), or it went
\* away with its placement, or nothing is left to do, or the tick is
\* blocked in its send.  recv: the operator is receiving from the channel.
NewErr(op) ==
    [op |-> op, range |-> 0, node |-> NoNode, sent |-> 0, closed |-> 0,
     on |-> "queued", recv |-> TRUE]

\* opSplit.Err <- err; close(opSplit.Err)   and   fail(err) of the joins.
\* The channel has no buffer (make(chan error)): the send returns when a
\* receiver takes the value and blocks while there is none.
SendAndClose(ch) ==
    IF ch.recv
    THEN [ch EXCEPT !.sent = @ + 1, !.closed = @ + 1, !.on = "none"]
    ELSE [ch EXCEPT !.on = "blocked"]

\* close(opJoin.Err), close(opSplit.Err) in the callbacks
CloseErr(ch) == [ch EXCEPT !.closed = @ + 1, !.on = "none"]

\* The tick takes a queued request: a join is failed or applied, and so is
\* a split unless it is left in opSplits.
TakeErr(ch, rs0, rs1, sp0, sp1) ==
    IF ch.on # "queued" THEN ch
    ELSE IF ch.op = "join"
    THEN IF Len(rs1) > Len(rs0)
         THEN [ch EXCEPT !.on = "ready", !.range = Len(rs1),
                         !.node = rs1[Len(rs1)].placements[1].node]
         ELSE SendAndClose(ch)
    ELSE IF sp1 # {} THEN ch
    ELSE IF Len(rs1) > Len(rs0)
         THEN [ch EXCEPT !.on = "obsolete",
                         !.range = (CHOOSE x \in sp0 : TRUE).range]
         ELSE SendAndClose(ch)

\* The callbacks: OnReady runs when the placement it was given to becomes
\* Active and is lost when that placement is destroyed; OnObsolete runs when
\* the range becomes Obsolete.
FireErr(ch, rs1) ==
    CASE ch.on = "ready" ->
            IF ~\E q \in SeqToSet(rs1[ch.range].placements) : q.node = ch.node
            THEN [ch EXCEPT !.on = "lost"]
            ELSE IF \E q \in SeqToSet(rs1[ch.range].placements) :
                       q.node = ch.node /\ q.cur = "PsActive"
            THEN CloseErr(ch)
            ELSE ch
      [] ch.on = "obsolete" ->
            IF rs1[ch.range].state = "RsObsolete" THEN CloseErr(ch) ELSE ch
      [] OTHER -> ch

\* what one orchestrator tick does to the Err channels
Answer(chs, rs0, rs1, sp0, sp1) ==
    [i \in 1..Len(chs) |-> FireErr(TakeErr(chs[i], rs0, rs1, sp0, sp1), rs1)]

\* A tick is blocked in a send: it has not returned and still holds the
\* keyspace lock.
Blocked == \E i \in 1..Len(opErrs) : opErrs[i].on = "blocked"

\* The operator waits for the tick to take a request before the next one.
Idle == opMoves = <<>> /\ opSplits = {} /\ opJoins = <<>>

\* Operator: move a range (optionally from a node, optionally to a node).
OpMoveReq ==
    /\ ~panicked
    /\ nOps < MaxOps
    /\ Idle
    /\ \E rid \in 1..Len(ranges), src \in Nodes \cup {NoNode} :
          opMoves' = Append(opMoves, [range |-> rid, src |-> src,
                                      dest |-> NoNode])
    /\ nOps' = nOps + 1
    /\ UNCHANGED <<ranges, roster, opSplits, opJoins, injects, nInj, panicked,
                   kvNode, store, opErrs,
                   recon, durable>>

\* Operator: split a range at a key.
OpSplitReq ==
    /\ ~panicked
    /\ nOps < MaxOps
    /\ Idle
    /\ Len(ranges) + 2 <= MaxRanges
    /\ \E rid \in 1..Len(ranges), k \in Keys :
          opSplits' = {[range |-> rid, key |-> k]}
    /\ nOps' = nOps + 1
    /\ opErrs' = Append(opErrs, NewErr("split"))
    /\ UNCHANGED <<ranges, roster, opMoves, opJoins, injects, nInj, panicked,
                   kvNode, store, recon, durable>>

\* Operator: join two ranges.
OpJoinReq ==
    /\ ~panicked
    /\ nOps < MaxOps
    /\ Idle
    /\ Len(ranges) + 1 <= MaxRanges
    /\ \E left \in 1..Len(ranges), right \in 1..Len(ranges) :
          opJoins' = Append(opJoins, [left |-> left, right |-> right,
                                      dest |-> NoNode])
    /\ nOps' = nOps + 1
    /\ opErrs' = Append(opErrs, NewErr("join"))
    /\ UNCHANGED <<ranges, roster, opMoves, opSplits, injects, nInj, panicked,
                   kvNode, store, recon, durable>>

\* One orchestrator tick.
OrchTick ==
    /\ ~panicked
    /\ ~Blocked
    /\ \E S \in {Tick(ranges, roster, opMoves, opSplits, opJoins,
                      <<NoNode, NoNode>>)} :
          /\ ranges' = S.rs
          /\ opMoves' = S.mv
          /\ opSplits' = S.sp
          /\ panicked' = S.pn
          /\ opErrs' = Answer(opErrs, ranges, S.rs, opSplits, S.sp)
    /\ opJoins' = <<>>
    /\ UNCHANGED <<roster, injects, nOps, nInj, kvNode, store, recon,
                   durable>>

\* Actuator tick that writes the answer of a command straight into the
\* placement as well as into the roster.
ActuatorTick_WritesThrough ==
    /\ ~panicked
    /\ roster' = Command(roster, ranges, injects)
    /\ ranges' =
          [rid \in 1..Len(ranges) |-> [ranges[rid] EXCEPT !.placements =
              [i \in 1..Len(ranges[rid].placements) |->
                  LET q == ranges[rid].placements[i]
                  IN IF /\ <<rid, i>> \in Slots(ranges)
                        /\ cmd(injects, CmdOf(ranges, <<rid, i>>)) =
                              mustDefault(ActionFor(q))
                     THEN PlacementToState(q, q.des)
                     ELSE q]]]
    /\ UNCHANGED <<opMoves, opSplits, opJoins, injects, nOps, nInj, panicked,
                   kvNode, store, opErrs,
                   recon, durable>>

\* One actuator tick: a command for every placement whose desired state
\* differs from its current state and whose action has not been given up.
ActuatorTick ==
    /\ ~panicked
    /\ ~Blocked
    /\ roster' = Command(roster, ranges, injects)
    /\ ranges' = incrementError(ranges, injects)
    /\ UNCHANGED <<opMoves, opSplits, opJoins, injects, nOps, nInj, panicked,
                   kvNode, store, opErrs,
                   recon, durable>>

\* mock Actuator.Inject: from now on a command is answered by an error or
\* by an intermediate remote state.
Inject ==
    /\ ~panicked
    /\ nInj < MaxInjects
    /\ \E x \in Slots(ranges), fail \in BOOLEAN :
          LET c == CmdOf(ranges, x)
          IN /\ ~\E e \in injects : e.cmd = c
             /\ injects' = injects \cup
                   {[cmd |-> c,
                     response |-> IF fail THEN "fail" ELSE slowState(c.action)]}
    /\ nInj' = nInj + 1
    /\ UNCHANGED <<ranges, roster, opMoves, opSplits, opJoins, nOps, panicked,
                   kvNode, store, opErrs,
                   recon, durable>>

\* mock Actuator.Unject: the command is answered by the default again.
Unject ==
    /\ ~panicked
    /\ \E e \in injects : injects' = injects \ {e}
    /\ UNCHANGED <<ranges, roster, opMoves, opSplits, opJoins, nOps, nInj,
                   panicked, kvNode, store, opErrs,
                   recon, durable>>

Next ==
    \/ OpMoveReq
    \/ OpSplitReq
    \/ OpJoinReq
    \/ OrchTick
    \/ ActuatorTick
    \/ Inject
    \/ Unject

Spec == Init /\ [][Next]_vars

\* ---------------------------------------------------------------- coverage

Probes == 0..NumKeys

ActiveAt(k) ==
    {x \in (1..Len(ranges)) \X (1..4) :
        /\ x[2] <= Len(ranges[x[1]].placements)
        /\ ranges[x[1]].placements[x[2]].cur = "PsActive"
        /\ Contains(ranges[x[1]], k)}

ServingAt(k) ==
    {x \in Nodes \X (1..Len(ranges)) :
        /\ roster[x[1]][x[2]] = "NsActive"
        /\ Contains(ranges[x[2]], k)}

\* ------------------------------------------- the keyspace driven directly

\* Keyspace.Discard: the error, or "" when the range is removed.
DiscardError(rs, rid) ==
    IF rs[rid].state # "RsObsolete" THEN "can't discard non-obsolete range"
    ELSE IF Len(rs[rid].children) = 0 THEN "has no children"
    ELSE ""

\* Keyspace.Discard on success: the range leaves the keyspace (its ident is
\* not reused, so its slot is kept and marked).
Discard(rs, rid) == [rs EXCEPT ![rid].state = "Discarded"]

\* The subsumed ranges of an operation are made obsolete together.
Obsolete(rs, op) ==
    [x \in 1..Len(rs) |->
        IF IsParent(op, x) /\ RangeTransitionOk(rs[x].state, "RsObsolete")
        THEN [rs[x] EXCEPT !.state = "RsObsolete"] ELSE rs[x]]

KsFrame == UNCHANGED <<roster, opMoves, opSplits, opJoins, injects, nOps,
                       nInj, panicked, kvNode, store, opErrs,
                   recon, durable>>

KsSplit ==
    /\ \E rid \in 1..Len(ranges), k \in 0..NumKeys :
          ranges' = IF Len(ranges) + 2 <= KsMaxRanges
                    THEN Split(ranges, rid, k).rs ELSE ranges
    /\ KsFrame

KsJoin ==
    /\ \E one \in 1..Len(ranges), two \in 1..Len(ranges) :
          ranges' = IF JoinError(ranges, one, two) = ""
                       /\ Len(ranges) + 1 <= KsMaxRanges
                    THEN JoinTwo(ranges, one, two).rs ELSE ranges
    /\ KsFrame

KsDiscard ==
    /\ \E rid \in 1..Len(ranges) :
          ranges' = IF DiscardError(ranges, rid) = ""
                    THEN Discard(ranges, rid) ELSE ranges
    /\ KsFrame

KsObsolete ==
    /\ \E k \in 1..Len(Operations(ranges)) :
          ranges' = Obsolete(ranges, Operations(ranges)[k])
    /\ KsFrame

NextKS == KsSplit \/ KsJoin \/ KsDiscard \/ KsObsolete

SpecKS == Init /\ [][NextKS]_vars

\* ------------------------------------------------------------------ claims

OpsSet == SeqToSet(Operations(ranges))

\* The actuator is about to send this command for the placement.
WillSend(p, a) == ActionFor(p) = a /\ ~Failed(p, a)

Covered(k, rids) == \E rid \in rids : Contains(ranges[rid], k)

Live == {rid \in 1..Len(ranges) : ranges[rid].state \in {"RsActive", "RsSubsuming"}}

\* C1: for every key, at most one placement whose controller state is
\* Active covers it (parents and children of an operation in flight and
\* the source and the replacement of a move included).
C1_SingleActivePlacement ==
    \A k \in Probes : Cardinality(ActiveAt(k)) <= 1

\* C2: for every key, at most one (node, range) pair of the roster is in
\* remote state NsActive for a range covering it.
C2_SingleServingNode ==
    \A k \in Probes : Cardinality(ServingAt(k)) <= 1

\* C3: after any sequence of successful or failed split, join and discard
\* calls the non-obsolete ranges cover every key, and the children of an
\* operation in flight cover exactly the keys its parents cover.
C3_Cover ==
    /\ \A k \in Probes : Covered(k, Live)
    /\ \A op \in OpsSet : \A k \in Probes :
          Covered(k, SeqToSet(op.parents)) <=> Covered(k, SeqToSet(op.children))

\* C4: a child placement of an operation in flight is asked to activate
\* only while every placement of every parent is Inactive or further.
C4_ActivateAfterParents ==
    \A op \in OpsSet : \A p \in PlacementsOf(ranges, op.children) :
        WillSend(p, "Serve") =>
            \A q \in PlacementsOf(ranges, op.parents) : InactiveOrFurther(q)

\* C5: an active parent placement of an operation in flight is asked to
\* deactivate only while no child placement is still Pending.
C5_DeactivateAfterChildren ==
    \A op \in OpsSet : \A p \in PlacementsOf(ranges, op.parents) :
        WillSend(p, "Take") =>
            \A q \in PlacementsOf(ranges, op.children) : q.cur # "PsPending"

\* nodes whose placement of the range is given the desired state in a step
Granted(rid, state) ==
    {n \in Nodes :
        /\ \E p \in SeqToSet(ranges[rid].placements) :
              p.node = n /\ p.des # state
        /\ \E p \in SeqToSet(ranges'[rid].placements) :
              p.node = n /\ p.des = state}

On(rs, rid, n) == CHOOSE p \in SeqToSet(rs[rid].placements) : p.node = n

OnNode(rs, rid, n) ==
    {i \in 1..Len(rs[rid].placements) : rs[rid].placements[i].node = n}

AllObsolete(rs, op) ==
    \A x \in SeqToSet(op.parents) : rs[x].state = "RsObsolete"

HasActive(rs, rid) ==
    \E p \in SeqToSet(rs[rid].placements) : p.cur = "PsActive"

AllServed(rs, op) == \A c \in SeqToSet(op.children) : HasActive(rs, c)

AllDropped(rs, op) ==
    \A p \in PlacementsOf(rs, op.parents) : p.cur = "PsDropped"

NoneLeft(rs, op) ==
    \A x \in SeqToSet(op.parents) : rs[x].placements = <<>>

\* the first parent of every operation ever started, finished ones included
Heads ==
    {rid \in 1..Len(ranges) :
        /\ Len(ranges[rid].children) > 0
        /\ OpOf(ranges, rid).parents[1] = rid}

\* the operation shares no range with another operation, in flight before
\* or after the step
Solo(op) ==
    \A op2 \in (OpsSet \cup SeqToSet(Operations(ranges'))) \ {op} :
        SeqToSet(OpRanges(op2)) \cap SeqToSet(OpRanges(op)) = {}

C9_ObsoleteHasNoPlacement ==
    \A rid \in 1..Len(ranges) :
        ranges[rid].state = "RsObsolete" =>
            \A p \in SeqToSet(ranges[rid].placements) : p.cur = "PsDropped"

\* a range that held an Active placement, lost it and became Obsolete
C9_Witness ==
    \E rid \in 1..Len(ranges) :
        /\ ranges[rid].state = "RsObsolete"
        /\ ranges[rid].placements = <<>>
        /\ \E n \in Nodes : roster[n][rid] = Absent
        /\ \A c \in SeqToSet(ranges[rid].children) : HasActive(ranges, c)

\* C10 as stated: a placement replacing node N has exactly one other
\* placement of its range on N, none only once that one was Dropped.
C10_ExactlyOneReplaced ==
    /\ [](\A rid \in 1..Len(ranges) :
            \A p \in SeqToSet(ranges[rid].placements) :
               p.repl # NoNode =>
                  Cardinality(OnNode(ranges, rid, p.repl)) <= 1)
    /\ [][\A rid \in 1..Len(ranges) :
            \A p \in SeqToSet(ranges'[rid].placements) :
               (p.repl # NoNode /\ OnNode(ranges', rid, p.repl) = {}) =>
                  \A q \in SeqToSet(ranges[rid].placements) :
                     q.node = p.repl => q.cur = "PsDropped"]_vars

\* C10 amended: a placement replacing node N is on another node and has at
\* most one other placement of its range on N; that one disappears only
\* when it is Dropped or Missing or N no longer reports the range.
C10_AtMostOneReplaced ==
    /\ [](\A rid \in 1..Len(ranges) :
            \A p \in SeqToSet(ranges[rid].placements) :
               p.repl # NoNode =>
                  /\ p.repl # p.node
                  /\ Cardinality(OnNode(ranges, rid, p.repl)) <= 1)
    /\ [][\A rid \in 1..Len(ranges) :
            \A p \in SeqToSet(ranges'[rid].placements) :
               (p.repl # NoNode /\ OnNode(ranges', rid, p.repl) = {}) =>
                  \A q \in SeqToSet(ranges[rid].placements) :
                     q.node = p.repl =>
                        \/ q.cur \in {"PsDropped", "PsMissing"}
                        \/ Get(roster, q.node, rid) = Absent]_vars

\* a replacement exists next to the Active placement it replaces
C10_Witness ==
    \E rid \in 1..Len(ranges) : \E p \in SeqToSet(ranges[rid].placements) :
        /\ p.repl # NoNode
        /\ \E q \in SeqToSet(ranges[rid].placements) :
              q.node = p.repl /\ q.cur = "PsActive"

\* the placements of a range that replace a placement still in the range
Replacing(rs, rid) ==
    {p \in SeqToSet(rs[rid].placements) :
        p.repl # NoNode /\ OnNode(rs, rid, p.repl) # {}}

\* the placement on the node becomes Active in the step
BecomesActive(rid, p) ==
    /\ p.cur # "PsActive"
    /\ \E p2 \in SeqToSet(ranges'[rid].placements) :
          p2.node = p.node /\ p2.cur = "PsActive"

SplitIn(rs, rs2, rid) ==
    /\ rs[rid].state = "RsActive"
    /\ rs2[rid].state = "RsSubsuming"
    /\ Len(rs2[rid].children) = 2

\* the children of a split range are the two halves of it at some key
\* strictly inside it, appended to the keyspace with the range as their
\* only parent
SplitShape(rs, rs2, rid) ==
    LET one == rs2[rid].children[1]
        two == rs2[rid].children[2]
    IN /\ one > Len(rs) /\ two > Len(rs) /\ one # two
       /\ rs2[one].parents = <<rid>> /\ rs2[two].parents = <<rid>>
       /\ rs2[one].start = rs[rid].start
       /\ rs2[two].end = rs[rid].end
       /\ rs2[one].end = rs2[two].start
       /\ rs2[one].end # ZeroKey
       /\ rs[rid].start = ZeroKey \/ rs[rid].start < rs2[one].end
       /\ rs[rid].end = ZeroKey \/ rs2[one].end < rs[rid].end

\* C12: a split succeeds only on an Active range whose placements are all
\* Active, at a key strictly inside the range; the range becomes Subsuming
\* and gets exactly the two halves as children, with it as only parent.
C12_SplitPreconditions ==
    [][\A rid \in 1..Len(ranges) :
         SplitIn(ranges, ranges', rid) =>
            /\ \A p \in SeqToSet(ranges[rid].placements) : p.cur = "PsActive"
            /\ SplitShape(ranges, ranges', rid)
            /\ Len(ranges') = Len(ranges) + 2]_vars

JoinShape(rs, rs2, one, two) ==
    LET three == Len(rs) + 1
    IN /\ Len(rs2) = three
       /\ rs2[one].state = "RsSubsuming" /\ rs2[two].state = "RsSubsuming"
       /\ rs2[one].children = <<three>> /\ rs2[two].children = <<three>>
       /\ rs2[three].parents = <<one, two>>
       /\ rs2[three].start = rs[one].start /\ rs2[three].end = rs[two].end

\* C14: a join either makes both ranges Subsuming and adds their one
\* child, or, on any error, changes neither range and adds nothing.
C14_JoinAtomic ==
    \A one \in 1..Len(ranges), two \in 1..Len(ranges) :
        IF JoinError(ranges, one, two) # "" THEN TRUE
        ELSE IF JoinTwo(ranges, one, two).ok
        THEN JoinShape(ranges, JoinTwo(ranges, one, two).rs, one, two)
        ELSE JoinTwo(ranges, one, two).rs = ranges

\* the tick returns from tickRange before it reaches the placements of the
\* range: a move or a split request for the range is refused
ReturnsEarly(rid) ==
    /\ ranges[rid].state = "RsActive"
    /\ \/ /\ moveOp(opMoves, rid) # 0
          /\ ~doMove(ranges, rid, opMoves[moveOp(opMoves, rid)], NoNode).ok
       \/ \E x \in opSplits : x.range = rid /\ SplitError(ranges, rid, x.key) # ""

\* the placements of the range on the node after the step
After(rid, n) == {p \in SeqToSet(ranges'[rid].placements) : p.node = n}

\* C15: a tick that reaches the placements of a range takes an Active
\* placement whose node does not report it to Missing, a Missing one to
\* Dropped and removes a Dropped one; no command is sent for a Missing or
\* Dropped placement, and a Dropped placement never changes state.
C15_MissingDroppedRemoved ==
    /\ [][OrchTick =>
            \A rid \in 1..Len(ranges) :
               (ranges[rid].state # "RsObsolete" /\ ~ReturnsEarly(rid)) =>
                  \A p \in SeqToSet(ranges[rid].placements) :
                     /\ (p.cur = "PsActive" /\ roster[p.node][rid] = Absent) =>
                           \A q \in After(rid, p.node) :
                              q.cur \in {"PsMissing", "PsDropped"}
                     /\ p.cur = "PsMissing" =>
                           \A q \in After(rid, p.node) : q.cur = "PsDropped"
                     /\ p.cur = "PsDropped" => After(rid, p.node) = {}]_vars
    /\ [](\A rid \in 1..Len(ranges) :
            \A p \in SeqToSet(ranges[rid].placements) :
               p.cur \in {"PsMissing", "PsDropped"} => ActionFor(p) = "None")
    /\ [][\A rid \in 1..Len(ranges) :
            \A p \in SeqToSet(ranges[rid].placements) :
               p.cur = "PsDropped" =>
                  \A q \in After(rid, p.node) : q.cur = "PsDropped"]_vars

\* the actions given up after repeated failure
Retried == {"Prepare", "Serve", "Take"}

\* the command of the i-th placement of the range in this actuator tick
CmdAt(rid, i) ==
    [range |-> rid, node |-> ranges[rid].placements[i].node,
     action |-> ActionFor(ranges[rid].placements[i])]

\* C16: a Prepare, Serve or Take that keeps failing is attempted three
\* times, one attempt per actuator tick, each failure counted; from the
\* third failure on the action is Failed and the actuator sends no further
\* command of that action for the placement.
C16_ThreeAttempts ==
    /\ [](\A rid \in 1..Len(ranges) :
            \A p \in SeqToSet(ranges[rid].placements) :
               \A a \in Retried : p.fails[a] <= 3 /\ (Failed(p, a) <=> p.fails[a] = 3))
    /\ [][ActuatorTick =>
            \A rid \in 1..Len(ranges) :
               \A i \in 1..Len(ranges[rid].placements) :
                  LET p == ranges[rid].placements[i]
                      q == ranges'[rid].placements[i]
                      a == ActionFor(p)
                      r == cmd(injects, CmdAt(rid, i))
                  IN a \in Retried =>
                       IF Failed(p, a)
                       THEN q = p /\ roster'[p.node][rid] = roster[p.node][rid]
                       ELSE IF r = "fail"
                       THEN /\ q = [p EXCEPT !.fails[a] = @ + 1]
                            /\ roster'[p.node][rid] = roster[p.node][rid]
                       ELSE q = p /\ roster'[p.node][rid] = r]_vars

\* a placement gave up activating after three failed Serves and stays
\* unserved although a Serve would now succeed
C16_Witness ==
    \E rid \in 1..Len(ranges) : \E p \in SeqToSet(ranges[rid].placements) :
        /\ ActionFor(p) = "Serve"
        /\ p.fails["Serve"] = 3
        /\ injects = {}
        /\ roster[p.node][rid] = "NsInactive"

\* the placement on node n of the range awaits a Drop the node has not
\* answered: Inactive, wanted Dropped, the node still holding the range
DropPending(rs, ros, rid, n) ==
    /\ ros[n][rid] = "NsInactive"
    /\ \E p \in SeqToSet(rs[rid].placements) :
          p.node = n /\ p.cur = "PsInactive" /\ p.des = "PsDropped"

NextWorkflow ==
    \/ OpMoveReq
    \/ OrchTick
    \/ ActuatorTick
    \/ Inject
    \/ Unject

\* An orchestrator tick would change the state: what ENABLED <<OrchTick>>_vars
\* says, computed from the tick itself.
TickChanges ==
    /\ ~panicked
    /\ \E S \in {Tick(ranges, roster, opMoves, opSplits, opJoins,
                      <<NoNode, NoNode>>)} :
          <<S.rs, S.mv, S.sp, S.pn, <<>>>> #
             <<ranges, opMoves, opSplits, panicked, opJoins>>

\* Weak fairness of both ticks; that of the orchestrator's tick is written
\* out as the definition of WF_vars(OrchTick) with TickChanges for ENABLED.
SpecWorkflow ==
    /\ Init
    /\ [][NextWorkflow]_vars
    /\ WF_vars(ActuatorTick)
    /\ ([]<>(~TickChanges) \/ []<><<OrchTick>>_vars)

\* the range is Active and has fewer placements than it needs, and a node
\* that can take it exists
Unplaced(rid) ==
    /\ rid <= Len(ranges)
    /\ ranges[rid].state = "RsActive"
    /\ Len(ranges[rid].placements) < MinPlacements
    /\ Candidate(ranges, rid, AnyNode, NoNode) # NoNode

\* the range has one placement, Active and replacing nothing, and its node
\* reports it Active
Placed(rid) ==
    /\ rid <= Len(ranges)
    /\ Len(ranges[rid].placements) = 1
    /\ ranges[rid].placements[1].cur = "PsActive"
    /\ ranges[rid].placements[1].des = "PsActive"
    /\ ranges[rid].placements[1].repl = NoNode
    /\ roster[ranges[rid].placements[1].node][rid] = "NsActive"

\* a placement is created Pending, becomes Inactive only from Pending or
\* Active, and becomes Active only from Inactive
Lifecycle ==
    \A rid \in 1..Len(ranges) : \A n \in Nodes :
       (\E q \in SeqToSet(ranges'[rid].placements) : q.node = n) =>
          IF \E p \in SeqToSet(ranges[rid].placements) : p.node = n
          THEN LET p == On(ranges, rid, n)
                   q == On(ranges', rid, n)
               IN /\ (q.cur = "PsActive" /\ p.cur # "PsActive") =>
                        p.cur = "PsInactive"
                  /\ (q.cur = "PsInactive" /\ p.cur # "PsInactive") =>
                        p.cur \in {"PsPending", "PsActive", "PsDropped"}
          ELSE On(ranges', rid, n).cur = "PsPending"

\* C18: an Active range without a placement, with a node to take it and no
\* command failing from then on, eventually has one placement, Active, on a
\* node that reports the range Active; the placement got there from Pending
\* through Inactive; and with no move queued that state is stable: neither
\* tick changes the keyspace or the roster.
C18_Place ==
    /\ \A rid \in RangeIds :
          []((Unplaced(rid) /\ [](injects = {})) => <>Placed(rid))
    /\ [][Lifecycle]_vars
    /\ [][(opMoves = <<>> /\ \A rid \in 1..Len(ranges) : Placed(rid)) =>
            (OrchTick \/ ActuatorTick => UNCHANGED <<ranges, roster>>)]_vars

\* the range has been placed from nothing: one Active placement that never
\* failed, while another node holds nothing
C18_Witness ==
    /\ Placed(1)
    /\ nOps = 0 /\ nInj = 0
    /\ \E n \in Nodes : roster[n][1] = Absent

Other(n) == CHOOSE m \in Nodes : m # n

\* the answer injected for one command
Failing(rid, n, a) ==
    {[cmd |-> [range |-> rid, node |-> n, action |-> a], response |-> "fail"]}

\* the range's only placement is on node n and has not got past the
\* action a, which the node has not yet carried out
FirstOn(rid, n, a) ==
    /\ rid <= Len(ranges)
    /\ ranges[rid].state = "RsActive"
    /\ Len(ranges[rid].placements) = 1
    /\ ranges[rid].placements[1].node = n
    /\ ranges[rid].placements[1].repl = NoNode
    /\ IF a = "Prepare"
       THEN ranges[rid].placements[1].cur = "PsPending"
              /\ roster[n][rid] = Absent
       ELSE ranges[rid].placements[1].cur \in {"PsPending", "PsInactive"}
              /\ roster[n][rid] \in {Absent, "NsInactive"}

\* the range is placed on node n and the other node holds nothing of it
PlacedOn(rid, n) ==
    /\ Placed(rid)
    /\ ranges[rid].placements[1].node = n
    /\ roster[Other(n)][rid] = Absent

\* C19: when the node first chosen fails every Prepare, or every Serve, of
\* the range, every other command succeeds and the operator requests no
\* move, the placement on it is given up and removed and the range
\* eventually has one placement, Active, on the other node, the bad node
\* holding nothing.  (Without splits the keyspace keeps its one range.)
C19_PlaceBadNode ==
    /\ [](Len(ranges) = 1)
    /\ \A n \in Nodes : \A a \in {"Prepare", "Serve"} :
          []((FirstOn(1, n, a)
                /\ [](injects = Failing(1, n, a) /\ opMoves = <<>>)) =>
                   <>PlacedOn(1, Other(n)))

\* the range is placed on the second node while the first still fails the
\* command that was given up on it
C19_Witness ==
    \E n \in Nodes : \E a \in {"Prepare", "Serve"} :
        /\ PlacedOn(1, Other(n))
        /\ injects = Failing(1, n, a)
        /\ nOps = 0

\* the range is placed on node n, nothing has failed on it, and a move of
\* it away from n is the only request queued (it is the operator's last
\* when nOps = MaxOps)
MoveQueued(n) ==
    /\ PlacedOn(1, n)
    /\ ranges[1].state = "RsActive"
    /\ ranges[1].placements[1].fails = NoFails
    /\ Len(opMoves) = 1
    /\ opMoves[1].range = 1
    /\ opMoves[1].src \in {n, NoNode}

\* the order of the commands of a move of the range from node n, whose
\* placement replaces nothing itself, while no response has been injected:
\* the source is asked to deactivate only once
\* the destination is prepared, the destination to serve only once the
\* source no longer serves, the source to drop only once the destination
\* serves
MoveOrder(n) ==
    (/\ nInj = 0
     /\ \E p \in SeqToSet(ranges[1].placements) :
           p.node = n /\ p.repl = NoNode
     /\ \E q \in SeqToSet(ranges[1].placements) :
           q.node = Other(n) /\ q.repl = n) =>
       LET p == On(ranges, 1, n)
           q == On(ranges, 1, Other(n))
       IN /\ WillSend(p, "Take") =>
               q.cur = "PsInactive" /\ roster[q.node][1] = "NsInactive"
          /\ WillSend(q, "Serve") =>
               p.cur # "PsActive" /\ roster[n][1] # "NsActive"
          /\ WillSend(p, "Drop") =>
               q.cur = "PsActive" /\ roster[q.node][1] = "NsActive"

\* C20: a move of the placed range from node A, with a healthy other node
\* B, no command failing and no further request, ends with the range
\* having one placement, on B, Active, replacing nothing, and A holding
\* nothing; the commands go Prepare(B), Take(A), Serve(B), Drop(A).
C20_Move ==
    /\ \A n \in Nodes :
          []((MoveQueued(n) /\ nOps = MaxOps /\ [](injects = {})) =>
                <>PlacedOn(1, Other(n)))
    /\ \A n \in Nodes : []MoveOrder(n)

\* a move from an Active placement half way: the destination is prepared,
\* the source has just carried out the Take, nothing was injected
C20_Witness ==
    \E n \in Nodes :
        /\ MoveOrder(n)
        /\ nInj = 0
        /\ Len(ranges[1].placements) = 2
        /\ \E p \in SeqToSet(ranges[1].placements) :
              /\ p.node = n /\ p.repl = NoNode
              /\ WillSend(p, "Take")
              /\ roster[n][1] = "NsInactive"
        /\ \E q \in SeqToSet(ranges[1].placements) :
              /\ q.node = Other(n) /\ q.repl = n
              /\ q.cur = "PsInactive"

\* ------------------------------------------------ split and join workflows

\* The controller with both tickers running while the operator splits
\* ranges; the nodes' answers may still be injected.
NextSplit ==
    \/ OpSplitReq
    \/ OrchTick
    \/ ActuatorTick
    \/ Inject
    \/ Unject

\* Weak fairness of both ticks, as in SpecWorkflow.
SpecSplit ==
    /\ Init
    /\ [][NextSplit]_vars
    /\ WF_vars(ActuatorTick)
    /\ ([]<>(~TickChanges) \/ []<><<OrchTick>>_vars)

\* no node holds anything of the range
Gone(rid) == \A n \in Nodes : roster[n][rid] = Absent

\* the range is Active with one settled Active placement that never failed,
\* and a split of it is the only request queued
SplitQueued(rid) ==
    /\ Placed(rid)
    /\ ranges[rid].state = "RsActive"
    /\ ranges[rid].placements[1].fails = NoFails
    /\ opMoves = <<>> /\ opJoins = <<>>
    /\ \E k \in Keys : opSplits = {[range |-> rid, key |-> k]}

\* nothing is injected and the operator asks for nothing beyond the request
\* on the range that is still to be taken up
Quiet(rid) ==
    /\ injects = {}
    /\ opMoves = <<>>
    /\ opJoins = <<>> \/ (rid <= Len(ranges) /\ ranges[rid].state = "RsActive")
    /\ opSplits = {} \/ (rid <= Len(ranges) /\ ranges[rid].state = "RsActive")

\* the range is Obsolete without placements, held by no node, and each of
\* its children is an Active range with one settled Active placement
Reshaped(rid) ==
    /\ rid <= Len(ranges)
    /\ ranges[rid].state = "RsObsolete"
    /\ ranges[rid].placements = <<>>
    /\ Gone(rid)
    /\ ranges[rid].children # <<>>
    /\ \A c \in SeqToSet(ranges[rid].children) :
          ranges[c].state = "RsActive" /\ Placed(c)
    /\ Idle

\* the order of the commands between a parent range and its children: the
\* parent is asked to deactivate only once every child placement is
\* prepared, a child to serve only once no parent placement serves, the
\* parent to drop only once every child placement serves
ReshapeOrder(rid) ==
    (/\ rid <= Len(ranges)
     /\ ranges[rid].state = "RsSubsuming"
     /\ ranges[rid].children # <<>>) =>
       LET op == OpOf(ranges, rid) IN
       /\ \A p \in SeqToSet(ranges[rid].placements) :
             /\ WillSend(p, "Take") =>
                   /\ ChildrenAll(ranges, op, {"PsInactive"})
                   /\ \A c \in SeqToSet(op.children) :
                         \A q \in SeqToSet(ranges[c].placements) :
                            roster[q.node][c] = "NsInactive"
             /\ WillSend(p, "Drop") =>
                   /\ ChildrenAll(ranges, op, {"PsActive"})
                   /\ \A c \in SeqToSet(op.children) :
                         \A q \in SeqToSet(ranges[c].placements) :
                            roster[q.node][c] = "NsActive"
       /\ \A c \in SeqToSet(op.children) :
             \A q \in SeqToSet(ranges[c].placements) :
                WillSend(q, "Serve") =>
                   \A p \in SeqToSet(ranges[rid].placements) :
                      p.cur # "PsActive" /\ roster[p.node][rid] # "NsActive"

\* C21: a split requested of an Active range with a settled Active
\* placement, no command failing and no further request, ends with the
\* parent Obsolete without placements and both children Active ranges with
\* an Active placement each; the commands go Prepare(children),
\* Take(parent), Serve(children), Drop(parent).
C21_Split ==
    \A rid \in RangeIds :
       []((SplitQueued(rid) /\ []Quiet(rid)) =>
             (<>Reshaped(rid) /\ []ReshapeOrder(rid)))

\* a split half way with nothing injected: the children are prepared and
\* the parent has just carried out the Take
C21_Witness ==
    /\ nInj = 0 /\ nOps = 1
    /\ Len(ranges) = 3
    /\ ranges[1].state = "RsSubsuming"
    /\ ranges[1].children = <<2, 3>>
    /\ ReshapeOrder(1)
    /\ \E p \in SeqToSet(ranges[1].placements) :
          WillSend(p, "Take") /\ roster[p.node][1] = "NsInactive"

\* Operator: join two ranges onto a named node (joinOp with a destination).
OpJoinTo ==
    /\ ~panicked
    /\ nOps < MaxOps
    /\ Idle
    /\ Len(ranges) + 1 <= MaxRanges
    /\ \E left \in 1..Len(ranges), right \in 1..Len(ranges), dest \in Nodes :
          opJoins' = Append(opJoins, [left |-> left, right |-> right,
                                      dest |-> dest])
    /\ nOps' = nOps + 1
    /\ opErrs' = Append(opErrs, NewErr("join"))
    /\ UNCHANGED <<ranges, roster, opMoves, opSplits, injects, nInj, panicked,
                   kvNode, store, recon, durable>>

\* Splits and joins with a destination, every command succeeding, ticks
\* that go on as in SpecSplit.
NextJoin == OpSplitReq \/ OpJoinTo \/ OrchTick \/ ActuatorTick

SpecJoin ==
    /\ Init /\ [][NextJoin]_vars /\ WF_vars(ActuatorTick)
    /\ ([]<>(~TickChanges) \/ []<><<OrchTick>>_vars)

\* a join of two different adjacent Active ranges, each with a settled
\* Active placement, onto node n is the one request waiting
JoinQueued(left, right, n) ==
    /\ left # right
    /\ Placed(left) /\ Placed(right)
    /\ ranges[left].placements[1].fails = NoFails
    /\ ranges[right].placements[1].fails = NoFails
    /\ JoinError(ranges, left, right) = ""
    /\ opMoves = <<>> /\ opSplits = {}
    /\ opJoins = <<[left |-> left, right |-> right, dest |-> n]>>

\* both parents are Obsolete without placements and held by no node; their
\* one child covers both intervals and has a settled Active placement on n
Joined(left, right, n) ==
    /\ left <= Len(ranges) /\ right <= Len(ranges)
    /\ \A x \in {left, right} :
          /\ ranges[x].state = "RsObsolete"
          /\ ranges[x].placements = <<>>
          /\ Gone(x)
          /\ Len(ranges[x].children) = 1
    /\ ranges[left].children = ranges[right].children
    /\ LET c == ranges[left].children[1] IN
          /\ ranges[c].state = "RsActive"
          /\ ranges[c].start = ranges[left].start
          /\ ranges[c].end = ranges[right].end
          /\ ranges[c].parents = <<left, right>>
          /\ Placed(c)
          /\ ranges[c].placements[1].node = n
          /\ \A m \in Nodes \ {n} : roster[m][c] = Absent
    /\ Idle

\* C22: a join of two adjacent Active ranges onto a node, requested with
\* no command failing and nothing else asked for afterwards, ends in a
\* state that stays: both parents Obsolete without placements and absent
\* from every node, the child covering both intervals with an Active
\* placement on the destination.
C22_Join ==
    \A left, right \in RangeIds : \A n \in Nodes :
       []((JoinQueued(left, right, n) /\ [](injects = {} /\ opMoves = <<>>
                                           /\ opSplits = {}
                                           /\ Len(opJoins) <= 1)) =>
             <>[]Joined(left, right, n))

\* the join of ranges 2 and 3 has ended: range 4 is served by one node
C22_Witness ==
    /\ nOps = 2 /\ nInj = 0
    /\ \E n \in Nodes : Joined(2, 3, n)

\* ------------------------------------------------------------- inversion

\* the placements of the parents of range c
ParentPlacements(c) == PlacementsOf(ranges, ranges[c].parents)

\* the children of the operation that made range c
Siblings(c) == SeqToSet(ranges[ranges[c].parents[1]].children)

\* range c is the child of an operation in flight, its parents have been
\* deactivated, its placement on node n has used up its Serve attempts, and
\* no Serve of a sibling is outstanding
InvertStart(c, n) ==
    /\ c <= Len(ranges)
    /\ ranges[c].state = "RsActive"
    /\ ranges[c].parents # <<>>
    /\ \A x \in SeqToSet(ranges[c].parents) :
          /\ ranges[x].state = "RsSubsuming"
          /\ Len(ranges[x].placements) = 1
    /\ \A q \in ParentPlacements(c) :
          q.cur = "PsInactive" /\ q.des = "PsInactive" /\ q.repl = NoNode
    /\ Len(ranges[c].placements) = 1
    /\ ranges[c].placements[1].node = n
    /\ ranges[c].placements[1].cur = "PsInactive"
    /\ roster[n][c] = "NsInactive"
    /\ Failed(ranges[c].placements[1], "Serve")
    /\ \A d \in Siblings(c) \ {c} :
          \A e \in SeqToSet(ranges[d].placements) : ~WillSend(e, "Serve")

\* every parent placement of range c serves again
ParentsBack(c) ==
    /\ c <= Len(ranges)
    /\ ranges[c].parents # <<>>
    /\ \A x \in SeqToSet(ranges[c].parents) : Len(ranges[x].placements) = 1
    /\ \A x \in SeqToSet(ranges[c].parents) :
          \A q \in SeqToSet(ranges[x].placements) :
             q.cur = "PsActive" /\ roster[q.node][x] = "NsActive"
    /\ \A d \in Siblings(c) : \A q \in SeqToSet(ranges[d].placements) :
          q.cur # "PsActive" /\ roster[q.node][d] # "NsActive"

\* the operation that made range c is over: the parents are Obsolete and
\* gone, every child is served, and c is served by a node other than n
DoneElsewhere(c, n) ==
    /\ c <= Len(ranges)
    /\ ranges[c].parents # <<>>
    /\ \A x \in SeqToSet(ranges[c].parents) : Reshaped(x)
    /\ ranges[c].placements[1].node # n
    /\ roster[n][c] = Absent

\* while the parents of range c are still Subsuming: a parent is asked to
\* serve again only once no child placement serves, and a child placement
\* that was given up is asked to drop only once every parent serves again
InvertOrder(c) ==
    (/\ c <= Len(ranges)
     /\ ranges[c].parents # <<>>
     /\ \A x \in SeqToSet(ranges[c].parents) :
           ranges[x].state = "RsSubsuming") =>
       /\ \A x \in SeqToSet(ranges[c].parents) :
             \A q \in SeqToSet(ranges[x].placements) :
                WillSend(q, "Serve") =>
                   \A d \in Siblings(c) :
                      \A e \in SeqToSet(ranges[d].placements) :
                         e.cur # "PsActive" /\ roster[e.node][d] # "NsActive"
       /\ \A e \in SeqToSet(ranges[c].placements) :
             (WillSend(e, "Drop") /\ Failed(e, "Serve")) =>
                \A q \in ParentPlacements(c) :
                   q.cur = "PsActive"
       /\ \A k \in Probes :
             Contains(ranges[c], k) =>
                \A x \in SeqToSet(ranges[c].parents) :
                   /\ ~(/\ \E q \in SeqToSet(ranges[x].placements) :
                              q.cur = "PsActive"
                        /\ \E e \in SeqToSet(ranges[c].placements) :
                              e.cur = "PsActive")
                   /\ ~(/\ \E m \in Nodes : roster[m][x] = "NsActive"
                        /\ \E m \in Nodes : roster[m][c] = "NsActive")

\* mock Actuator.Inject of a failure for the Serve of a placement of a
\* range that has parents.
InjectServe ==
    /\ ~panicked
    /\ nInj < MaxInjects
    /\ \E x \in Slots(ranges) :
          LET c == CmdOf(ranges, x)
          IN /\ c.action = "Serve"
             /\ ranges[c.range].parents # <<>>
             /\ ~\E e \in injects : e.cmd = c
             /\ injects' = injects \cup {[cmd |-> c, response |-> "fail"]}
    /\ nInj' = nInj + 1
    /\ UNCHANGED <<ranges, roster, opMoves, opSplits, opJoins, nOps, panicked,
                   kvNode, store, opErrs,
                   recon, durable>>

\* every range is either Obsolete without placements or Active with one
\* settled Active placement
Settled ==
    \A rid \in 1..Len(ranges) :
       \/ ranges[rid].state = "RsObsolete" /\ ranges[rid].placements = <<>>
       \/ ranges[rid].state = "RsActive" /\ Placed(rid)

\* The operator asks for a split or a join once the keyspace has settled
\* (the orchestrator tests start every operation from such a state).
OpSplitSettled == Settled /\ OpSplitReq

OpJoinSettled == Settled /\ OpJoinTo

\* Splits and joins with Serve commands that fail, ticks that go on.
NextInvert ==
    \/ OpSplitSettled
    \/ OpJoinSettled
    \/ OrchTick
    \/ ActuatorTick
    \/ InjectServe
    \/ Unject

SpecInvert ==
    /\ Init /\ [][NextInvert]_vars /\ WF_vars(ActuatorTick)
    /\ ([]<>(~TickChanges) \/ []<><<OrchTick>>_vars)

\* from now on only the Serve of range c on node n fails, and the operator
\* asks for nothing
OnlyFailing(c, n) ==
    /\ injects \subseteq Failing(c, n, "Serve")
    /\ opMoves = <<>> /\ opSplits = {} /\ opJoins = <<>>

RemoteOf(cur) ==
    CASE cur = "PsInactive" -> "NsInactive"
      [] cur = "PsActive" -> "NsActive"
      [] OTHER -> Absent

\* no request is queued, and every placement has reached its desired state
\* and is reported by its node in the matching remote state
InStep ==
    /\ Idle
    /\ \A rid \in 1..Len(ranges) :
          \A q \in SeqToSet(ranges[rid].placements) :
             q.cur = q.des /\ roster[q.node][rid] = RemoteOf(q.cur)

\* an orchestrator tick or an actuator tick
AnyTick == OrchTick \/ ActuatorTick

\* the tick changes neither the keyspace nor the roster and leaves no
\* command to send
NoEffect ==
    /\ ranges' = ranges
    /\ roster' = roster
    /\ Slots(ranges') = {}

NodeFrame == UNCHANGED <<ranges, roster, opMoves, opSplits, opJoins, injects,
                         nOps, nInj, panicked, store, opErrs,
                   recon, durable>>

NodeGive ==
    /\ \E i \in Idents, parents \in BOOLEAN, fetchOk \in BOOLEAN :
          \E got \in SUBSET {i} :
             kvNode' = Give(kvNode, i, parents, fetchOk, got)
    /\ NodeFrame

NodeServe ==
    /\ \E i \in Idents, force \in BOOLEAN : kvNode' = Serve(kvNode, i, force)
    /\ NodeFrame

NodeTake ==
    /\ \E i \in Idents : kvNode' = Take(kvNode, i)
    /\ NodeFrame

NodeDrop ==
    /\ \E i \in Idents, force \in BOOLEAN : kvNode' = Drop(kvNode, i, force)
    /\ NodeFrame

NodePut ==
    /\ \E k \in Idents, del \in BOOLEAN : kvNode' = Put(kvNode, k, del)
    /\ NodeFrame

NextNode == NodeGive \/ NodeServe \/ NodeTake \/ NodeDrop \/ NodePut

SpecNode == Init /\ [][NextNode]_vars

\* the state of the range on the node is the one the call leaves behind
\* when it succeeds
InTarget(call, i, flag) ==
    CASE call = "Give" ->
            kvNode.data[i].state = (IF flag THEN "StateFetched" ELSE "StateReady")
      [] call = "Serve" -> kvNode.data[i].state = "StateReady"
      [] call = "Take" -> kvNode.data[i].state = "StateTaken"
      [] call = "Drop" -> kvNode.data[i].state = "none"

\* the step is this call
Called(call, i, flag) ==
    /\ kvNode'.reply.call = call
    /\ kvNode'.reply.ident = i
    /\ kvNode'.reply.flag = flag

\* C25: a Give, Serve, Take or Drop sent to a node whose range is already
\* in the state that call leaves behind succeeds, changes neither the
\* ranges held nor their state nor their data, and answers with the state
\* of the range.
C25_Idempotent ==
    [][\A call \in {"Give", "Serve", "Take", "Drop"} :
          \A i \in Idents, flag \in BOOLEAN :
             (InTarget(call, i, flag) /\ Called(call, i, flag)) =>
                /\ kvNode'.reply.ok
                /\ kvNode'.data = kvNode.data
                /\ kvNode'.ranges = kvNode.ranges
                /\ kvNode'.reply.state = kvNode.data[i].state]_vars

\* ---------------------------------------------------------------------
\* The persister alone: catalogs are written to and read from the store.
\* ---------------------------------------------------------------------

RangeOf(id, state, parents, children, placements) ==
    [ident |-> id, start |-> id - 1, end |-> id, state |-> state,
     parents |-> parents, children |-> children, placements |-> placements]

\* no placement, or one placement in any state
PlacementChoices ==
    {<<>>} \cup {<<[node |-> "aaa", cur |-> c, des |-> "PsActive"]>> :
                    c \in PlacementStates}

\* the catalogs handed to PutRanges in one piece: up to NumStored ranges in
\* the order of their ids, a range possibly the child of the one before it,
\* the link recorded in the parent, in the child, or in both
RECURSIVE CatalogsFrom(_)
CatalogsFrom(id) ==
    IF id > NumStored THEN {<<>>}
    ELSE {<<RangeOf(id, s, <<>>, <<>>, p)>> \o rest :
             s \in RangeStates, p \in PlacementChoices,
             rest \in CatalogsFrom(id + 1)}
         \cup
         {<<RangeOf(id, s, <<>>, <<>>, p)>> :
             s \in RangeStates, p \in PlacementChoices}

LinkFirst(c, inParent, inChild) ==
    IF Len(c) < 2 THEN c
    ELSE [c EXCEPT ![1].children = IF inParent THEN <<c[2].ident>> ELSE <<>>,
                   ![2].parents = IF inChild THEN <<c[1].ident>> ELSE <<>>]

Catalogs ==
    {<<>>} \cup
    {LinkFirst(c, inParent, inChild) :
        c \in UNION {CatalogsFrom(id) : id \in StoredIds},
        inParent \in BOOLEAN, inChild \in BOOLEAN}

\* the catalogs of one range, as written after an operation touched it; its
\* links may name a range written by another call
SingleOf(id) ==
    {<<RangeOf(id, s, pa, ch, p)>> :
        s \in RangeStates, p \in PlacementChoices,
        pa \in IF id > 1 THEN {<<>>, <<id - 1>>} ELSE {<<>>},
        ch \in IF id < NumStored THEN {<<>>, <<id + 1>>} ELSE {<<>>}}

SingleCatalogs == UNION {SingleOf(id) : id \in StoredIds}

StoreFrame == UNCHANGED <<ranges, roster, opMoves, opSplits, opJoins, injects,
                          nOps, nInj, panicked, kvNode, opErrs,
                   recon, durable>>

\* PutRanges with a whole catalog on the empty store
StorePut ==
    /\ store.puts = 0
    /\ \E c \in Catalogs : store' = PutRanges(store, c)
    /\ StoreFrame

\* PutRanges with one range, on any store
StorePutOne ==
    /\ store.puts < MaxPuts
    /\ \E c \in SingleCatalogs : store' = PutRanges(store, c)
    /\ StoreFrame

StoreGet ==
    /\ store.puts > 0
    /\ ~store.got.read
    /\ store' = [store EXCEPT !.got = [read |-> TRUE,
                                       ranges |-> GetRanges(store)]]
    /\ StoreFrame

NextStore == StorePut \/ StorePutOne \/ StoreGet

SpecStore == Init /\ [][NextStore]_vars

SeqSet(q) == {q[i] : i \in 1..Len(q)}

\* every link of the catalog joins two of its ranges and is recorded in
\* both of them
Consistent(c) ==
    \A i \in 1..Len(c) :
       /\ \A x \in SeqSet(c[i].children) :
             \E j \in 1..Len(c) :
                c[j].ident = x /\ c[i].ident \in SeqSet(c[j].parents)
       /\ \A x \in SeqSet(c[i].parents) :
             \E j \in 1..Len(c) :
                c[j].ident = x /\ c[i].ident \in SeqSet(c[j].children)

\* the ranges of a catalog, links and placements without their order
AsLoaded(c) ==
    {[ident |-> c[i].ident, start |-> c[i].start, end |-> c[i].end,
      state |-> c[i].state,
      parents |-> SeqSet(c[i].parents),
      children |-> SeqSet(c[i].children),
      placements |-> SeqSet(c[i].placements)] : i \in 1..Len(c)}

\* C26: a catalog whose links are recorded consistently on both ends, put
\* into the empty store, is accepted, and GetRanges then returns the same
\* ranges with the same keys, states, links and placement states.
C26_RoundTrip ==
    (store.puts = 1 /\ store.got.read /\ Consistent(store.put)) =>
       /\ ~store.err
       /\ store.got.ranges = AsLoaded(store.put)

\* the step is a call of PutRanges
IsPut == store'.puts = store.puts + 1

\* a range of the catalog has its id in the store already
Stored(st, c) == \E i \in 1..Len(c) : \E x \in st.range : x.id = c[i].ident

Tables(st) == <<st.range, st.child, st.placement>>

\* C27: a PutRanges call naming a range whose id is already stored
\* succeeds, and the store then holds the values of the call for that
\* range; a PutRanges call that fails leaves the tables as they were.
C27_Upsert ==
    [][IsPut =>
         /\ Stored(store, store'.put) =>
               /\ ~store'.err
               /\ AsLoaded(store'.put) \subseteq GetRanges(store')
         /\ store'.err => Tables(store') = Tables(store)]_vars

\* ---------------------------------------------------------------------
\* Operator requests and their answers.
\* ---------------------------------------------------------------------

\* C28: an orchestrator tick leaves no operator request queued: every
\* move, split and join that was queued before the tick has been taken off
\* its queue, answered by an error or applied to the keyspace, also when it
\* names a range that is not Active.
C28_NoneLeftQueued ==
    [][OrchTick => (opMoves' = <<>> /\ opSplits' = {} /\ opJoins' = <<>>)]_vars

\* the split or join of the channel has gone through: the split range, or
\* every parent of the joined range, is Obsolete, and a joined range is
\* served
Completed(ch) ==
    /\ ch.range # 0
    /\ IF ch.op = "split"
       THEN ranges[ch.range].state = "RsObsolete"
       ELSE /\ \A x \in SeqToSet(ranges[ch.range].parents) :
                  ranges[x].state = "RsObsolete"
            /\ \E q \in SeqToSet(ranges[ch.range].placements) :
                  q.cur = "PsActive"

\* C29: an Err channel is closed at most once, carries at most one value
\* and only when it is closed, and is closed without a value once its
\* split or join has gone through, whichever placement of the new range
\* came to serve it.
C29_ClosedOnce ==
    \A i \in 1..Len(opErrs) :
       /\ opErrs[i].closed <= 1
       /\ opErrs[i].sent <= opErrs[i].closed
       /\ Completed(opErrs[i]) =>
             opErrs[i].closed = 1 /\ opErrs[i].sent = 0

\* ---------------------------------------------------------------------
\* The states of a range.
\* ---------------------------------------------------------------------

\* the step makes the range the parent of ranges it creates
BySplitOrJoin(rid) ==
    /\ ranges'[rid].children # <<>>
    /\ \A c \in SeqToSet(ranges'[rid].children) :
          /\ c > Len(ranges)
          /\ c <= Len(ranges')
          /\ rid \in SeqToSet(ranges'[c].parents)

\* the step is a tick that finds the range's operation complete: the
\* placements the parents had are Dropped and destroyed by this tick, and
\* every child is served
ByCheckComplete(rid) ==
    /\ OrchTick
    /\ ranges[rid].children # <<>>
    /\ \A x \in SeqToSet(OpOf(ranges, rid).parents) :
          /\ \A q \in SeqToSet(ranges[x].placements) : q.cur = "PsDropped"
          /\ ranges'[x].placements = <<>>
    /\ \A c \in SeqToSet(ranges[rid].children) :
          \E q \in SeqToSet(ranges[c].placements) \cup
                   SeqToSet(ranges'[c].placements) : q.cur = "PsActive"

\* C30: a range changes state only from Active to Subsuming, when a split
\* or join makes it a parent, and from Subsuming to Obsolete, when the
\* tick finds its operation complete; it never goes back and never leaves
\* Obsolete.
C30_Forward ==
    [][\A rid \in 1..Len(ranges) :
          ranges'[rid].state # ranges[rid].state =>
             \/ /\ ranges[rid].state = "RsActive"
                /\ ranges'[rid].state = "RsSubsuming"
                /\ BySplitOrJoin(rid)
             \/ /\ ranges[rid].state = "RsSubsuming"
                /\ ranges'[rid].state = "RsObsolete"
                /\ ByCheckComplete(rid)]_vars

\* ---------------------------------------------------------------------
\* Moves of a placement that is already being replaced.
\* ---------------------------------------------------------------------

\* the placements doMove may take as the source of the move
IsSrc(rid, opMove, i) ==
    IF opMove.src # NoNode THEN ranges[rid].placements[i].node = opMove.src
    ELSE ranges[rid].placements[i].cur = "PsActive"

\* the tick will find a move queued for the Active range whose source
\* placement is being replaced by another placement of the range
MoveOfReplaced(rid) ==
    /\ ranges[rid].state = "RsActive"
    /\ opJoins = <<>>
    /\ moveOp(opMoves, rid) # 0
    /\ \E i \in 1..Len(ranges[rid].placements) :
          /\ IsSrc(rid, opMoves[moveOp(opMoves, rid)], i)
          /\ \A j \in 1..(i - 1) :
                ~IsSrc(rid, opMoves[moveOp(opMoves, rid)], j)
          /\ \E q \in SeqToSet(ranges[rid].placements) :
                q.repl = ranges[rid].placements[i].node

\* the placements of the range annotated as replacing the node
ReplacersOf(rid, n) ==
    {i \in 1..Len(ranges[rid].placements) : ranges[rid].placements[i].repl = n}

\* C31: the tick rejects a move whose source placement is already being
\* replaced: the move leaves the queue and the range is as before, no
\* placement created; and no range ever has two placements replacing the
\* same node.
C31_MoveOfReplaced ==
    /\ [][\A rid \in 1..Len(ranges) :
            (MoveOfReplaced(rid) /\ OrchTick) =>
               /\ ranges'[rid] = ranges[rid]
               /\ moveOp(opMoves', rid) = 0]_vars
    /\ [](\A rid \in 1..Len(ranges) : \A n \in Nodes :
             Cardinality(ReplacersOf(rid, n)) <= 1)

\* a second move of the same source is queued while its replacement, not
\* yet serving, stands next to it
C31_Witness ==
    \E rid \in 1..Len(ranges) :
       /\ MoveOfReplaced(rid)
       /\ Len(ranges[rid].placements) = 2
       /\ ranges[rid].placements[1].cur = "PsActive"
       /\ ranges[rid].placements[2].repl = ranges[rid].placements[1].node
       /\ ranges[rid].placements[2].cur # "PsActive"

\* ---------------------------------------------------------------------
\* Moves that fail.
\* ---------------------------------------------------------------------

\* a move of range 1 from node n, no further request to come: the source
\* has been deactivated and the destination has failed to activate as often
\* as is counted, neither node serving the range
MoveServeFailed(n) ==
    /\ nOps = MaxOps
    /\ opMoves = <<>>
    /\ Len(ranges) = 1
    /\ Len(ranges[1].placements) = 2
    /\ \E p \in SeqToSet(ranges[1].placements) :
          p.node = n /\ p.repl = NoNode /\ p.cur = "PsInactive"
    /\ \E q \in SeqToSet(ranges[1].placements) :
          q.node = Other(n) /\ q.repl = n /\ Failed(q, "Serve")
    /\ roster[n][1] = "NsInactive"
    /\ roster[Other(n)][1] = "NsInactive"

\* the destination that failed to activate is to be dropped, or has been,
\* only when the source serves again
BackBeforeDrop(n) ==
    \A q \in SeqToSet(ranges[1].placements) :
       (/\ q.node = Other(n) /\ q.repl = n /\ Failed(q, "Serve")
        /\ q.des = "PsDropped") =>
          \E p \in SeqToSet(ranges[1].placements) :
             /\ p.node = n
             /\ p.cur = "PsActive"
             /\ roster[n][1] = "NsActive"

\* C32: when the source of a move was deactivated and the destination then
\* fails to activate three times, the source is activated again on its node
\* before the destination is dropped, and the range ends with its original
\* placement alone, Active, the destination node holding nothing.
C32_MoveServeFailure ==
    \A n \in Nodes :
       /\ [](MoveServeFailed(n) => <>[]PlacedOn(1, n))
       /\ []BackBeforeDrop(n)

\* the source serves again and the failed destination is about to be
\* dropped
C32_Witness ==
    \E n \in Nodes :
       /\ BackBeforeDrop(n)
       /\ \E q \in SeqToSet(ranges[1].placements) :
             /\ q.node = Other(n) /\ q.repl = n /\ Failed(q, "Serve")
             /\ WillSend(q, "Drop")
       /\ roster[Other(n)][1] = "NsInactive"
       /\ roster[n][1] = "NsActive"

\* a move of range 1 from node n, no further request to come: the source
\* serves, and either the destination, which holds nothing, has failed its
\* Prepare or the source, the destination prepared, has failed its Take as
\* often as is counted
MoveGivenUp(n, a) ==
    /\ nOps = MaxOps
    /\ opMoves = <<>>
    /\ Len(ranges) = 1
    /\ Len(ranges[1].placements) = 2
    /\ roster[n][1] = "NsActive"
    /\ \E p \in SeqToSet(ranges[1].placements) :
          /\ p.node = n /\ p.repl = NoNode /\ p.cur = "PsActive"
          /\ a = "Take" => Failed(p, "Take")
    /\ \E q \in SeqToSet(ranges[1].placements) :
          /\ q.node = Other(n) /\ q.repl = n
          /\ a = "Prepare" =>
                /\ Failed(q, "Prepare")
                /\ q.cur = "PsPending"
                /\ roster[Other(n)][1] = Absent
          /\ a = "Take" =>
                /\ q.cur = "PsInactive"
                /\ roster[Other(n)][1] = "NsInactive"

\* the placement on node n is Active in the keyspace and on the node
ServesOn(n) ==
    /\ roster[n][1] = "NsActive"
    /\ \E p \in SeqToSet(ranges[1].placements) :
          p.node = n /\ p.cur = "PsActive"

\* the range has its original placement alone, on node n, Active and
\* replacing nothing, served by the node, no command left to send and the
\* other node holding nothing
OnlyOn(n) ==
    /\ ServesOn(n)
    /\ Len(ranges[1].placements) = 1
    /\ ranges[1].placements[1].repl = NoNode
    /\ roster[Other(n)][1] = Absent
    /\ Slots(ranges) = {}

\* C33: when the destination of a move has failed its Prepare three times,
\* or the source its Take, the source stays Active in the keyspace and on
\* its node from then on, and the range ends with the original placement
\* alone, Active, the destination node holding nothing.
C33_MoveGivenUp ==
    \A n \in Nodes : \A a \in {"Prepare", "Take"} :
       [](MoveGivenUp(n, a) => ([]ServesOn(n) /\ <>[]OnlyOn(n)))

\* the source has refused the Take for good and the prepared destination
\* is about to be dropped from its node
C33_Witness ==
    \E n \in Nodes :
       /\ ServesOn(n)
       /\ \E p \in SeqToSet(ranges[1].placements) :
             p.node = n /\ Failed(p, "Take")
       /\ \E q \in SeqToSet(ranges[1].placements) :
             q.node = Other(n) /\ q.repl = n /\ WillSend(q, "Drop")
       /\ roster[Other(n)][1] = "NsInactive"

\* ------------------------------------------- results are used a tick later

\* The remote states a placement in state cur is expected to report.
Expected(cur) ==
    CASE cur = "PsPending" -> {"NsPreparing", "NsInactive", Absent}
      [] cur = "PsInactive" -> {"NsInactive", "NsActivating", "NsActive",
                                "NsDropping", Absent}
      [] cur = "PsActive" -> {"NsActive", "NsDeactivating", "NsInactive"}
      [] OTHER -> {}

\* The placement's new current state new is the one the remote state ri
\* stands for, for a placement that was in state old.
Matches(old, new, ri) ==
    CASE new = "PsInactive" -> ri = "NsInactive"
      [] new = "PsActive" -> ri = "NsActive"
      [] new = "PsDropped" -> ri = Absent
      [] new = "PsMissing" -> ri = Absent \/ ri \notin Expected(old)
      [] OTHER -> FALSE

\* The current state the placement of range rid on node n had in rs; a
\* placement that did not exist is created Pending.
CurBefore(rs, rid, n) ==
    IF rid <= Len(rs) /\ \E q \in SeqToSet(rs[rid].placements) : q.node = n
    THEN (CHOOSE q \in SeqToSet(rs[rid].placements) : q.node = n).cur
    ELSE "PsPending"

\* The placements of rs2 are those of rs1, failure counts aside.
SamePlacements(rs1, rs2) ==
    /\ Len(rs2) = Len(rs1)
    /\ \A rid \in 1..Len(rs1) :
          /\ Len(rs2[rid].placements) = Len(rs1[rid].placements)
          /\ \A i \in 1..Len(rs1[rid].placements) :
                LET q1 == rs1[rid].placements[i]
                    q2 == rs2[rid].placements[i]
                IN /\ q2.node = q1.node
                   /\ q2.cur = q1.cur
                   /\ q2.des = q1.des
                   /\ q2.repl = q1.repl

ReconFrame == UNCHANGED <<ranges, roster, opMoves, opSplits, opJoins, injects,
                          nOps, nInj, panicked, kvNode, store, opErrs,
                          durable>>

\* the placements a node may be expected to hold: for every range none, or
\* one in some state at position 0 (current) or 1 (next)
ReconKeyspaces ==
    [ReconIds -> {NoPlacement} \cup [State : ReconStates, Position : {0, 1}]]

\* the reports of a node: some of the ranges, each once, in any order
Reports ==
    UNION {{r \in [1..k -> [id : ReconIds, state : ReportStates]] :
               \A i, j \in 1..k : i # j => r[i].id # r[j].id} :
           k \in 0..NumReported}

\* the orders in which the states map over the ranges of S may be walked
Orders(S) ==
    {o \in [1..Cardinality(S) -> S] :
        \A i, j \in 1..Cardinality(S) : i # j => o[i] # o[j]}

\* Reconciler.Run takes one NodeInfo from the channel and handles it.
ReconNodeInfo ==
    /\ ~recon.done
    /\ \E ks \in ReconKeyspaces, report \in Reports, shared \in BOOLEAN :
          \E order \in Orders(PlacementsByNodeID(ks) \cup Reported(report)) :
             recon' = [done |-> TRUE, ks0 |-> ks, report |-> report,
                       shared |-> shared, order |-> order,
                       ks1 |-> nodeInfo(ks, report, shared, order)]
    /\ ReconFrame

NextRecon == ReconNodeInfo

SpecRecon == Init /\ [][NextRecon]_vars

\* the report without the entry of range id, and the order without it
Without(q, id) == SelectSeq(q, LAMBDA x : x # id)

ReportWithout(report, id) == SelectSeq(report, LAMBDA x : x.id # id)

\* the expected placement of range id diverges from the reported state
Diverges(id) ==
    /\ id \in PlacementsByNodeID(recon.ks0)
    /\ id \in Reported(recon.report)
    /\ recon.ks0[id].State # ToStatePlacement(StateIn(recon.report, id))

\* the expected placement of range id is not in the report
NotReported(id) ==
    /\ id \in PlacementsByNodeID(recon.ks0)
    /\ id \notin Reported(recon.report)

\* C35: after a node's report was handled, (a) an expected placement whose
\* reported state differs from the controller's is in the reported state
\* when that is a forward transition and is marked gone (Missing) when it
\* is not; (b) an expected placement absent from the report has changed
\* only by being marked gone, and only when it is the current placement
\* (position 0) and not Pending; (c) a reported range nobody expected has
\* no effect: the keyspace is what it would be without that entry.
C35_Reconciler ==
    recon.done =>
       \A id \in ReconIds :
          /\ Diverges(id) =>
                LET act == ToStatePlacement(StateIn(recon.report, id))
                IN IF ReconForward(recon.ks0[id].State, act)
                   THEN recon.ks1[id].State = act
                   ELSE recon.ks1[id].State = SpGone
          /\ NotReported(id) =>
                (recon.ks1[id] # recon.ks0[id] =>
                    /\ recon.ks1[id].State = SpGone
                    /\ recon.ks0[id].Position = 0
                    /\ recon.ks0[id].State # "SpPending")
          /\ (id \in Reported(recon.report)
                /\ id \notin PlacementsByNodeID(recon.ks0)) =>
                recon.ks1 = nodeInfo(recon.ks0,
                                     ReportWithout(recon.report, id),
                                     recon.shared, Without(recon.order, id))

\* ------------------------------------------------ the parents of a Prepare

\* Node.Addr of the roster's node: host and port.
Addr(n) == [host |-> n, port |-> 1]

\* ranje.PlacementStateToProto
PlacementStateToProto(st) ==
    CASE st = "PsPending" -> "PS_PENDING"
      [] st = "PsInactive" -> "PS_INACTIVE"
      [] st = "PsActive" -> "PS_ACTIVE"
      [] st = "PsMissing" -> "PS_MISSING"
      [] st = "PsDropped" -> "PS_DROPPED"
      [] OTHER -> "PS_UNKNOWN"

\* pbPlacement: the range and its placements as (node address, state); the
\* address is empty for a node the roster does not know.
pbPlacement(rs, ros, rid) ==
    [Range |-> rid,
     Placements |->
        [i \in 1..Len(rs[rid].placements) |->
            [Node |-> IF rs[rid].placements[i].node \in DOMAIN ros
                      THEN Addr(rs[rid].placements[i].node) ELSE "",
             State |-> PlacementStateToProto(rs[rid].placements[i].cur)]]]

\* addParents that does not look at the seen set.
RECURSIVE addParents_NoSeen(_, _, _, _, _)
addParents_NoSeen(rs, ros, todo, parents, seen) ==
    IF todo = <<>> THEN [parents |-> parents, seen |-> seen]
    ELSE LET rid == Head(todo)
             own == addParents_NoSeen(rs, ros, rs[rid].parents,
                                      Append(parents, pbPlacement(rs, ros, rid)),
                                      seen \cup {rid})
         IN addParents_NoSeen(rs, ros, Tail(todo), own.parents, own.seen)

\* addParents for the ranges of todo in turn (the loop over rang.Parents):
\* a range already seen is skipped, else it is appended and its parents
\* follow, depth first.
RECURSIVE addParents(_, _, _, _, _)
addParents(rs, ros, todo, parents, seen) ==
    IF todo = <<>> THEN [parents |-> parents, seen |-> seen]
    ELSE LET rid == Head(todo)
             own == IF rid \in seen
                    THEN [parents |-> parents, seen |-> seen]
                    ELSE addParents(rs, ros, rs[rid].parents,
                                    Append(parents, pbPlacement(rs, ros, rid)),
                                    seen \cup {rid})
         IN addParents(rs, ros, Tail(todo), own.parents, own.seen)

\* util.GetParents
utilGetParents(rs, ros, rid) == addParents(rs, ros, <<rid>>, <<>>, {}).parents

\* The ranges reachable from rid over at least one parent link.
RECURSIVE AncestorsFrom(_, _, _)
AncestorsFrom(rs, S, n) ==
    IF n = 0 THEN S
    ELSE AncestorsFrom(rs,
            S \cup UNION {SeqToSet(rs[x].parents) : x \in S}, n - 1)

Ancestors(rs, rid) == AncestorsFrom(rs, SeqToSet(rs[rid].parents), Len(rs))

RangesIn(ps) == {ps[i].Range : i \in 1..Len(ps)}

\* Every range of ps is there once and carries its current placements.
OnceWithPlacements(rs, ros, ps) ==
    /\ \A i, j \in 1..Len(ps) : i # j => ps[i].Range # ps[j].Range
    /\ \A i \in 1..Len(ps) :
          LET pl == rs[ps[i].Range].placements
          IN /\ Len(ps[i].Placements) = Len(pl)
             /\ \A k \in 1..Len(pl) :
                   /\ ps[i].Placements[k].Node = Addr(pl[k].node)
                   /\ ps[i].Placements[k].State =
                         PlacementStateToProto(pl[k].cur)

\* C36 as stated: for every range, GetParents returns the ancestors of the
\* range (the ranges reachable over one or more parent links), each once,
\* each with its current placements as (node address, placement state).
C36_ParentsClosure ==
    \A rid \in 1..Len(ranges) :
       LET ps == utilGetParents(ranges, roster, rid)
       IN /\ RangesIn(ps) = Ancestors(ranges, rid)
          /\ OnceWithPlacements(ranges, roster, ps)

\* C36 amended: for every range, GetParents returns the range itself first
\* and then its ancestors (the ranges reachable over one or more parent
\* links), each range once also when it is reachable by several paths, each
\* entry with that range's current placements as (node address, placement
\* state); the walk ends for every keyspace the controller can hold.
C36_SelfAndAncestors ==
    \A rid \in 1..Len(ranges) :
       LET ps == utilGetParents(ranges, roster, rid)
       IN /\ Len(ps) >= 1 /\ ps[1].Range = rid
          /\ RangesIn(ps) = {rid} \cup Ancestors(ranges, rid)
          /\ Len(ps) = Cardinality({rid} \cup Ancestors(ranges, rid))
          /\ OnceWithPlacements(ranges, roster, ps)

\* A range joined from the two children of a split: its grandparent is
\* reachable over both parents, and ranges of the walk hold placements.
C36_Witness ==
    \E rid \in 1..Len(ranges) :
       /\ Len(ranges[rid].parents) = 2
       /\ ranges[rid].parents[1] # ranges[rid].parents[2]
       /\ \E g \in 1..Len(ranges) :
             /\ g \in SeqToSet(ranges[ranges[rid].parents[1]].parents)
             /\ g \in SeqToSet(ranges[ranges[rid].parents[2]].parents)
       /\ ranges[rid].placements # <<>>
       /\ \E x \in Ancestors(ranges, rid) : ranges[x].placements # <<>>

\* ------------------------------------------------- one placement alone

DurableFrame == UNCHANGED <<ranges, roster, opMoves, opSplits, opJoins,
                            injects, nOps, nInj, panicked, kvNode, store,
                            opErrs, recon>>

\* the placement as ToState sees it
Placement == [State |-> durable.State, NodeID |-> durable.NodeID]

\* some caller takes the placement to a state; the range's Put may fail
DurableToState ==
    /\ ~durable.panic
    /\ \E new \in SpStates, putFails \in BOOLEAN :
          \E r \in {ToState(Placement, new, putFails)} :
             durable' = [State |-> r.State, NodeID |-> r.NodeID,
                         call |-> "ToState", old |-> Placement,
                         new |-> new, putFails |-> putFails,
                         err |-> r.err, panic |-> r.panic]
    /\ DurableFrame

\* the range is given to a node, which answers with a remote state: a new
\* placement replaces the one looked at
DurableGive ==
    /\ ~durable.panic
    /\ \E n \in Nodes, rs \in GiveStates, putFails \in BOOLEAN :
          \E r \in {NodeGiveTo(n, rs, putFails)} :
             durable' = [State |-> r.State, NodeID |-> r.NodeID,
                         call |-> "Give",
                         old |-> [State |-> "SpPending", NodeID |-> n],
                         new |-> rs, putFails |-> putFails,
                         err |-> "", panic |-> r.panic]
    /\ DurableFrame

NextDurable == DurableToState \/ DurableGive

SpecDurable == Init /\ [][NextDurable]_vars

\* the call was a ToState that passes the validation
Validated ==
    /\ durable.call = "ToState"
    /\ durable.new # "SpUnknown"
    /\ durable.old.State # "SpDropped"
    /\ DurableOk(durable.old.State, durable.new)

\* the placement is as it was before the call
AsBefore ==
    /\ durable.State = durable.old.State
    /\ durable.NodeID = durable.old.NodeID

\* C37: after a ToState whose transition is valid and whose persisting
\* failed, an error was returned and the placement has the state and the
\* node id it had before the call; after a ToState with an invalid
\* transition, into Unknown or out of Dropped, an error was returned and
\* the placement is as before.
C37_WriteThroughRollback ==
    durable.call = "ToState" =>
       /\ (Validated /\ durable.putFails) =>
             (~durable.panic /\ durable.err # "" /\ AsBefore)
       /\ ~Validated => (~durable.panic /\ durable.err # "" /\ AsBefore)

\* C39: a ToState for fetching -> fetch_failed or fetch_failed -> pending
\* whose persisting succeeds returns without error and leaves the
\* placement in the new state; after a Give that the node answered with
\* FetchFailed the placement is in the FetchFailed state; neither panics.
C39_FetchFailedOrdinary ==
    /\ (/\ durable.call = "ToState"
        /\ DurablePanics(durable.old.State, durable.new)
        /\ ~durable.putFails) =>
          (~durable.panic /\ durable.err = "" /\ durable.State = durable.new)
    /\ (/\ durable.call = "Give"
        /\ durable.new = "StateFetchFailed"
        /\ ~durable.putFails) =>
          (~durable.panic /\ durable.State = "SpFetchFailed")

\* --------------------------------------------- removing destroyed placements

\* the operation a range is ticked with: the one it takes part in, if any
OpFor(rs, rid) ==
    IF \E i \in 1..Len(Operations(rs)) :
          rid \in SeqToSet(OpRanges(Operations(rs)[i]))
    THEN Operations(rs)[CHOOSE i \in 1..Len(Operations(rs)) :
                           rid \in SeqToSet(OpRanges(Operations(rs)[i]))]
    ELSE NoOp

\* the placement loop of a tick of range rid in the current state
Ticked(rid) ==
    TickPlacementsFrom(ranges, roster, rid, 1, OpFor(ranges, rid), <<>>)

\* the elements of q at the positions outside S, in their order
RECURSIVE Except(_, _, _)
Except(q, S, i) ==
    IF i > Len(q) THEN <<>>
    ELSE (IF i \in S THEN <<>> ELSE <<q[i]>>) \o Except(q, S, i + 1)

\* C38: whenever a range is ticked, the removal loop ends (no index out of
\* range) and leaves exactly the placements whose tick did not return
\* destroy, in their original order, however many were marked.
C38_Destroyed ==
    \A rid \in 1..Len(ranges) :
       ranges[rid].state # "RsObsolete" =>
          \E t \in {Ticked(rid)} :
             \E d \in {DestroyAll(t.rs[rid].placements, t.toDestroy)} :
                /\ ~d.panic
                /\ d.placements = Except(t.rs[rid].placements,
                                         SeqToSet(t.toDestroy), 1)

\* ------------------------------------------- operators that stop waiting

\* The operator's call ends (deadline, cancellation, lost connection)
\* before its request was answered: nobody receives from the channel any
\* more.
OpLeave ==
    /\ ~panicked
    /\ \E i \in 1..Len(opErrs) :
          /\ opErrs[i].recv
          /\ opErrs[i].closed = 0
          /\ opErrs' = [opErrs EXCEPT ![i].recv = FALSE]
    /\ UNCHANGED <<ranges, roster, opMoves, opSplits, opJoins, injects, nOps,
                   nInj, panicked, kvNode, store, recon, durable>>

NextOperator ==
    \/ OpSplitReq
    \/ OpJoinReq
    \/ OpLeave
    \/ OrchTick
    \/ ActuatorTick

SpecOperator == Init /\ [][NextOperator]_vars

\* C40: no orchestrator tick is ever stuck in a send on an operator's
\* channel: every tick returns and gives the keyspace lock back, so that
\* the next tick and RangesList can take it.
C40_TickReturns == ~Blocked

=============================================================================
